---- MODULE Spec2Model ----
(***************************************************************************)
(* DuelBase escrow and settlement: the GameManager contract                *)
(* (smart-contracts/src/GameManager.sol), the DUEL token balances it       *)
(* moves, the TicTacToeGame contract, the TokenStore contract and the      *)
(* off-chain signing endpoint that issues attestations.                    *)
(*                                                                         *)
(* Every external function is one action.  A transaction that reverts      *)
(* leaves the chain state exactly as it was (EVM revert), so a rejected    *)
(* call is a step that changes nothing; the error a call reverts with is   *)
(* the value of the function's ...Err operator, which evaluates the        *)
(* function's checks in the order of the code.                             *)
(***************************************************************************)
EXTENDS Integers, Sequences, FiniteSets, TLC

(* ------------------------------ bounds -------------------------------- *)

\* number of games createGame may create (caps nextGameId)
MaxGames == 2

\* DUEL held by each funded player at the start
InitialBalance == 250

\* number of games TicTacToeGame.createGame may create
MaxBoards == 1

\* a move names a cell at most this far past the first empty cell
MaxSkip == 1

\* DUEL the deployment moves into the store, in thousandths of a token
StoreInventory == 3000

\* USDC held by each player at the start, in millionths of a dollar
InitialUsdc == 30000

(* ---------------------------- environment ----------------------------- *)

Zero == "0x0"
GM == "GameManager"
TTT == "TicTacToeGame"
STORE == "TokenStore"
OwnerAddr == "owner"
Players == {"alice", "bob"}
Accounts == Players \cup {"charlie"}

\* the backend's signing key and a second key (a replacement, or a forger's)
BackendKey == "signer1"
OtherKey == "signer2"
Keys == {BackendKey, OtherKey}
\* what ecrecover yields for a signature made over another digest
Unrelated == "unrelated"

GameTypes == {"TicTacToe", "ConnectFour"}

\* block timestamps the chain passes through, around the cancel deadline
TimePoints == {0, 86399, 86400}
\* the same with the deadlines a one-second timeout gives
FineTimePoints == {0, 1, 86399, 86400}

WagerInputs == {0, 100, 110}
EdgeInputs == {0, 5000, 5001}
TimeoutInputs == {1, 86400}

(* ------------------------- program constants -------------------------- *)

MAX_EDGE_PERCENT == 5000
BASIS_POINTS == 10000
DefaultCancelTimeout == 86400
DefaultEdgeTicTacToe == 500
DefaultEdgeConnectFour == 300
MOVE_TIMEOUT == 120
DefaultJoinTimeout == 86400
INITIAL_PRICE == 10000
\* 10 ** DUEL_DECIMALS, token amounts being counted in thousandths of a
\* token (10 ** 15 base units)
DuelUnit == 1000

(* ------------------------------- state -------------------------------- *)

VARIABLES
    games,           \* mapping(uint256 => Game), the written slots
    nextGameId,      \* uint256
    backendSigner,   \* address
    cancelTimeout,   \* uint256
    edgePercent,     \* mapping(GameType => uint256)
    usedSignatures,  \* the digests d with usedSignatures[d] = true
    balances,        \* DUEL balanceOf, for the accounts and the contracts
    now,             \* block.timestamp
    paidIn,          \* history: DUEL pulled into GameManager, per game
    paidOut,         \* history: DUEL sent out of GameManager, per game
    outCount,        \* history: number of outbound transfers, per game
    tttGames,        \* TicTacToeGame: mapping(uint256 => Game)
    tttNextGameId,   \* TicTacToeGame: uint256 nextGameId
    joinTimeout,     \* TicTacToeGame: uint256 joinTimeout
    target,          \* the contract the transactions are sent to
    gameStates,      \* game-state service: Map<string, GameState>
    issued,          \* the signatures the signing endpoint has returned
    pricePerToken,   \* TokenStore: uint256 pricePerToken
    isOpen,          \* TokenStore: bool isOpen
    usdcBalances     \* USDC balanceOf, for the accounts and the store

gmVars == <<games, nextGameId, backendSigner, cancelTimeout, edgePercent,
            usedSignatures, paidIn, paidOut, outCount>>
tttVars == <<tttGames, tttNextGameId, joinTimeout>>
\* what no GameManager function touches
offVars == <<gameStates, issued>>
storeVars == <<pricePerToken, isOpen, usdcBalances>>
other == <<tttVars, target, offVars, storeVars>>
vars == <<games, nextGameId, backendSigner, cancelTimeout, edgePercent,
          usedSignatures, balances, now, paidIn, paidOut, outCount,
          tttGames, tttNextGameId, joinTimeout, target, gameStates, issued,
          pricePerToken, isOpen, usdcBalances>>

\* the value a mapping slot reads before it is written
ZeroGame ==
    [player1 |-> Zero, player2 |-> Zero, wagerAmount |-> 0, player1Wager |-> 0,
     gameType |-> "TicTacToe", status |-> "Created", createdAt |-> 0,
     winner |-> Zero]

\* games[gameId]
GameAt(gameId) == IF gameId \in DOMAIN games THEN games[gameId] ELSE ZeroGame

(* --------------------------- attestations ----------------------------- *)

\* mutant: the struct hash leaves the game id out
Digest_NoGameId(gameId, winner) == <<winner>>

\* the EIP-712 digest binds exactly (gameId, winner) under a fixed domain
Digest(gameId, winner) == <<gameId, winner>>

\* a 65-byte signature: the key that made it and the message it was made over
Sign(key, gameId, winner) == [key |-> key, gameId |-> gameId, winner |-> winner]

\* digest.recover(signature)
Recover(digest, sig) ==
    IF Digest(sig.gameId, sig.winner) = digest THEN sig.key ELSE Unrelated

(* ------------------------------ token --------------------------------- *)

\* safeTransferFrom(from, this, amount) / safeTransfer(to, amount) succeed
\* exactly when the payer holds the amount (allowances are unlimited)
CanPay(from, amount) == balances[from] >= amount

Moved(from, to, amount) ==
    [a \in DOMAIN balances |->
        IF from = to THEN balances[a]
        ELSE IF a = from THEN balances[a] - amount
        ELSE IF a = to THEN balances[a] + amount
        ELSE balances[a]]

(* ---------------------------- WagerPolicy ----------------------------- *)

\* view function calculatePlayer1Wager
CalculatePlayer1Wager(wagerAmount, gameType) ==
    LET edge == (wagerAmount * edgePercent[gameType]) \div BASIS_POINTS
    IN  wagerAmount + edge

\* mutant: the edge is rounded up
Player1WagerOnCreate_RoundUp(wagerAmount, gameType) ==
    LET edge == (wagerAmount * edgePercent[gameType] + BASIS_POINTS - 1)
                    \div BASIS_POINTS
    IN  wagerAmount + edge

\* the stake createGame computes inline
Player1WagerOnCreate(wagerAmount, gameType) ==
    LET edge == (wagerAmount * edgePercent[gameType]) \div BASIS_POINTS
        player1Wager == wagerAmount + edge
    IN  player1Wager

(* ----------------------------- createGame ----------------------------- *)

\* mutant: the counter is incremented before it is read
AssignedGameId_PreIncrement == nextGameId + 1

\* gameId = nextGameId++
AssignedGameId == nextGameId

\* mutant: the caller may name itself as opponent
CreateGameErr_SelfAllowed(sender, opponent, wagerAmount, gameType) ==
    IF opponent = Zero THEN "InvalidAddress"
    ELSE IF wagerAmount = 0 THEN "InvalidAmount"
    ELSE IF ~CanPay(sender, Player1WagerOnCreate(wagerAmount, gameType))
         THEN "ERC20InsufficientBalance"
    ELSE "OK"

CreateGameErr(sender, opponent, wagerAmount, gameType) ==
    IF opponent = Zero \/ opponent = sender THEN "InvalidAddress"
    ELSE IF wagerAmount = 0 THEN "InvalidAmount"
    ELSE IF ~CanPay(sender, Player1WagerOnCreate(wagerAmount, gameType))
         THEN "ERC20InsufficientBalance"
    ELSE "OK"

NewGame(sender, opponent, wagerAmount, gameType) ==
    [player1 |-> sender, player2 |-> opponent, wagerAmount |-> wagerAmount,
     player1Wager |-> Player1WagerOnCreate(wagerAmount, gameType),
     gameType |-> gameType, status |-> "Created", createdAt |-> now,
     winner |-> Zero]

\* mutant: when the token transfer fails the id and the record stay written
CreateGame_NoRollback(sender, opponent, wagerAmount, gameType) ==
    LET err == CreateGameErr(sender, opponent, wagerAmount, gameType)
        gameId == AssignedGameId
        g == NewGame(sender, opponent, wagerAmount, gameType)
    IN  IF err \in {"OK", "ERC20InsufficientBalance"}
        THEN /\ nextGameId' = nextGameId + 1
             /\ games' = games @@ (gameId :> g)
             /\ balances' = IF err = "OK" THEN Moved(sender, GM, g.player1Wager)
                            ELSE balances
             /\ paidIn' = paidIn @@
                   (gameId :> IF err = "OK" THEN g.player1Wager ELSE 0)
             /\ paidOut' = paidOut @@ (gameId :> 0)
             /\ outCount' = outCount @@ (gameId :> 0)
             /\ UNCHANGED <<backendSigner, cancelTimeout, edgePercent,
                            usedSignatures, now, other>>
        ELSE UNCHANGED vars

CreateGame(sender, opponent, wagerAmount, gameType) ==
    LET err == CreateGameErr(sender, opponent, wagerAmount, gameType)
        gameId == AssignedGameId
        g == NewGame(sender, opponent, wagerAmount, gameType)
    IN  IF err = "OK"
        THEN /\ nextGameId' = nextGameId + 1
             /\ games' = games @@ (gameId :> g)
             /\ balances' = Moved(sender, GM, g.player1Wager)
             /\ paidIn' = paidIn @@ (gameId :> g.player1Wager)
             /\ paidOut' = paidOut @@ (gameId :> 0)
             /\ outCount' = outCount @@ (gameId :> 0)
             /\ UNCHANGED <<backendSigner, cancelTimeout, edgePercent,
                            usedSignatures, now, other>>
        ELSE UNCHANGED vars

(* ------------------------------ joinGame ------------------------------ *)

\* mutant: a cancelled game can still be joined
JoinGameErr_CancelledToo(sender, gameId) ==
    LET game == GameAt(gameId)
    IN  IF game.player1 = Zero THEN "InvalidGameId"
        ELSE IF game.status \notin {"Created", "Cancelled"}
             THEN "InvalidGameStatus"
        ELSE IF sender # game.player2 THEN "NotPlayer2"
        ELSE IF ~CanPay(sender, game.wagerAmount) THEN "ERC20InsufficientBalance"
        ELSE "OK"

\* mutant: any account may take the second seat
JoinGameErr_AnyCaller(sender, gameId) ==
    LET game == GameAt(gameId)
    IN  IF game.player1 = Zero THEN "InvalidGameId"
        ELSE IF game.status # "Created" THEN "InvalidGameStatus"
        ELSE IF ~CanPay(sender, game.wagerAmount) THEN "ERC20InsufficientBalance"
        ELSE "OK"

JoinGameErr(sender, gameId) ==
    LET game == GameAt(gameId)
    IN  IF game.player1 = Zero THEN "InvalidGameId"
        ELSE IF game.status # "Created" THEN "InvalidGameStatus"
        ELSE IF sender # game.player2 THEN "NotPlayer2"
        ELSE IF ~CanPay(sender, game.wagerAmount) THEN "ERC20InsufficientBalance"
        ELSE "OK"

JoinGame(sender, gameId) ==
    LET err == JoinGameErr(sender, gameId)
        game == GameAt(gameId)
    IN  IF err = "OK"
        THEN /\ games' = [games EXCEPT ![gameId].status = "Active"]
             /\ balances' = Moved(sender, GM, game.wagerAmount)
             /\ paidIn' = [paidIn EXCEPT ![gameId] = @ + game.wagerAmount]
             /\ UNCHANGED <<nextGameId, backendSigner, cancelTimeout,
                            edgePercent, usedSignatures, now, paidOut,
                            outCount, other>>
        ELSE UNCHANGED vars

(* ---------------------------- completeGame ---------------------------- *)

\* mutant: the replay check comes before the status check
CompleteGameErr_UsedFirst(gameId, winner, signature) ==
    LET game == GameAt(gameId)
        digest == Digest(gameId, winner)
    IN  IF game.player1 = Zero THEN "InvalidGameId"
        ELSE IF digest \in usedSignatures THEN "SignatureAlreadyUsed"
        ELSE IF game.status # "Active" THEN "InvalidGameStatus"
        ELSE IF winner # game.player1 /\ winner # game.player2
             THEN "InvalidWinner"
        ELSE IF Recover(digest, signature) # backendSigner
             THEN "InvalidSignature"
        ELSE IF ~CanPay(GM, game.player1Wager + game.wagerAmount)
             THEN "ERC20InsufficientBalance"
        ELSE "OK"

\* mutant: the winner check comes before the status check
CompleteGameErr_WinnerFirst(gameId, winner, signature) ==
    LET game == GameAt(gameId)
        digest == Digest(gameId, winner)
    IN  IF game.player1 = Zero THEN "InvalidGameId"
        ELSE IF winner # game.player1 /\ winner # game.player2
             THEN "InvalidWinner"
        ELSE IF game.status # "Active" THEN "InvalidGameStatus"
        ELSE IF digest \in usedSignatures THEN "SignatureAlreadyUsed"
        ELSE IF Recover(digest, signature) # backendSigner
             THEN "InvalidSignature"
        ELSE IF ~CanPay(GM, game.player1Wager + game.wagerAmount)
             THEN "ERC20InsufficientBalance"
        ELSE "OK"

CompleteGameErr(gameId, winner, signature) ==
    LET game == GameAt(gameId)
        digest == Digest(gameId, winner)
    IN  IF game.player1 = Zero THEN "InvalidGameId"
        ELSE IF game.status # "Active" THEN "InvalidGameStatus"
        ELSE IF winner # game.player1 /\ winner # game.player2
             THEN "InvalidWinner"
        ELSE IF digest \in usedSignatures THEN "SignatureAlreadyUsed"
        ELSE IF Recover(digest, signature) # backendSigner
             THEN "InvalidSignature"
        ELSE IF ~CanPay(GM, game.player1Wager + game.wagerAmount)
             THEN "ERC20InsufficientBalance"
        ELSE "OK"

\* mutant: the status is left Active
CompletedGame_StatusKept(game, winner) == [game EXCEPT !.winner = winner]

\* the record completeGame writes back
CompletedGame(game, winner) ==
    [game EXCEPT !.status = "Completed", !.winner = winner]

\* mutant: the pot is taken to be twice the base wager
TotalPayout_NoEdge(game) == 2 * game.wagerAmount

\* mutant: the stake is recomputed from the current edge schedule
TotalPayout_CurrentEdge(game) ==
    CalculatePlayer1Wager(game.wagerAmount, game.gameType) + game.wagerAmount

\* uint256 totalPayout = game.player1Wager + game.wagerAmount
TotalPayout(game) == game.player1Wager + game.wagerAmount

\* mutant: a settlement leaves its digest unmarked
CompleteGame_NoMark(sender, gameId, winner, signature) ==
    LET err == CompleteGameErr(gameId, winner, signature)
        game == GameAt(gameId)
    IN  IF err = "OK"
        THEN /\ games' = [games EXCEPT ![gameId] = CompletedGame(game, winner)]
             /\ balances' = Moved(GM, winner, TotalPayout(game))
             /\ paidOut' = [paidOut EXCEPT ![gameId] = @ + TotalPayout(game)]
             /\ outCount' = [outCount EXCEPT ![gameId] = @ + 1]
             /\ UNCHANGED <<nextGameId, backendSigner, cancelTimeout,
                            edgePercent, usedSignatures, now, paidIn, other>>
        ELSE UNCHANGED vars

\* mutant: a call rejected for its signer keeps the mark it made
CompleteGame_MarkKept(sender, gameId, winner, signature) ==
    LET err == CompleteGameErr(gameId, winner, signature)
        game == GameAt(gameId)
    IN  IF err = "OK"
        THEN /\ usedSignatures' = usedSignatures \cup {Digest(gameId, winner)}
             /\ games' = [games EXCEPT ![gameId] = CompletedGame(game, winner)]
             /\ balances' = Moved(GM, winner, TotalPayout(game))
             /\ paidOut' = [paidOut EXCEPT ![gameId] = @ + TotalPayout(game)]
             /\ outCount' = [outCount EXCEPT ![gameId] = @ + 1]
             /\ UNCHANGED <<nextGameId, backendSigner, cancelTimeout,
                            edgePercent, now, paidIn, other>>
        ELSE IF err = "InvalidSignature"
        THEN /\ usedSignatures' = usedSignatures \cup {Digest(gameId, winner)}
             /\ UNCHANGED <<games, nextGameId, backendSigner, cancelTimeout,
                            edgePercent, balances, now, paidIn, paidOut,
                            outCount, other>>
        ELSE UNCHANGED vars

\* mutant: the pot goes to whoever sends the transaction
CompleteGame_PaysCaller(sender, gameId, winner, signature) ==
    LET err == CompleteGameErr(gameId, winner, signature)
        game == GameAt(gameId)
    IN  IF err = "OK"
        THEN /\ usedSignatures' = usedSignatures \cup {Digest(gameId, winner)}
             /\ games' = [games EXCEPT ![gameId] = CompletedGame(game, winner)]
             /\ balances' = Moved(GM, sender, TotalPayout(game))
             /\ paidOut' = [paidOut EXCEPT ![gameId] = @ + TotalPayout(game)]
             /\ outCount' = [outCount EXCEPT ![gameId] = @ + 1]
             /\ UNCHANGED <<nextGameId, backendSigner, cancelTimeout,
                            edgePercent, now, paidIn, other>>
        ELSE UNCHANGED vars

CompleteGame(sender, gameId, winner, signature) ==
    LET err == CompleteGameErr(gameId, winner, signature)
        game == GameAt(gameId)
    IN  IF err = "OK"
        THEN /\ usedSignatures' = usedSignatures \cup {Digest(gameId, winner)}
             /\ games' = [games EXCEPT ![gameId] = CompletedGame(game, winner)]
             /\ balances' = Moved(GM, winner, TotalPayout(game))
             /\ paidOut' = [paidOut EXCEPT ![gameId] = @ + TotalPayout(game)]
             /\ outCount' = [outCount EXCEPT ![gameId] = @ + 1]
             /\ UNCHANGED <<nextGameId, backendSigner, cancelTimeout,
                            edgePercent, now, paidIn, other>>
        ELSE UNCHANGED vars

(* --------------------------- verifySignature -------------------------- *)

\* mutant: the probe does not look at usedSignatures
VerifySignature_IgnoresUsed(gameId, winner, signature) ==
    LET digest == Digest(gameId, winner)
        recoveredSigner == Recover(digest, signature)
    IN  recoveredSigner = backendSigner

\* view function verifySignature
VerifySignature(gameId, winner, signature) ==
    LET digest == Digest(gameId, winner)
        recoveredSigner == Recover(digest, signature)
    IN  recoveredSigner = backendSigner /\ digest \notin usedSignatures

(* ----------------------------- cancelGame ----------------------------- *)

\* mutant: the deadline itself counts as not reached
CancelGameErr_Exclusive(sender, gameId) ==
    LET game == GameAt(gameId)
    IN  IF game.player1 = Zero THEN "InvalidGameId"
        ELSE IF game.status # "Created" THEN "InvalidGameStatus"
        ELSE IF sender # game.player1 THEN "NotPlayer"
        ELSE IF now <= game.createdAt + cancelTimeout THEN "TimeoutNotReached"
        ELSE IF ~CanPay(GM, game.player1Wager) THEN "ERC20InsufficientBalance"
        ELSE "OK"

\* mutant: the deadline is the one in force when the contract was deployed
CancelGameErr_DefaultTimeout(sender, gameId) ==
    LET game == GameAt(gameId)
    IN  IF game.player1 = Zero THEN "InvalidGameId"
        ELSE IF game.status # "Created" THEN "InvalidGameStatus"
        ELSE IF sender # game.player1 THEN "NotPlayer"
        ELSE IF now < game.createdAt + DefaultCancelTimeout
             THEN "TimeoutNotReached"
        ELSE IF ~CanPay(GM, game.player1Wager) THEN "ERC20InsufficientBalance"
        ELSE "OK"

\* mutant: the deadline runs from the creation of the latest game
CancelGameErr_LastCreated(sender, gameId) ==
    LET game == GameAt(gameId)
    IN  IF game.player1 = Zero THEN "InvalidGameId"
        ELSE IF game.status # "Created" THEN "InvalidGameStatus"
        ELSE IF sender # game.player1 THEN "NotPlayer"
        ELSE IF now < GameAt(nextGameId - 1).createdAt + cancelTimeout
             THEN "TimeoutNotReached"
        ELSE IF ~CanPay(GM, game.player1Wager) THEN "ERC20InsufficientBalance"
        ELSE "OK"

\* mutant: a game can be cancelled whatever its status
CancelGameErr_AnyStatus(sender, gameId) ==
    LET game == GameAt(gameId)
    IN  IF game.player1 = Zero THEN "InvalidGameId"
        ELSE IF sender # game.player1 THEN "NotPlayer"
        ELSE IF now < game.createdAt + cancelTimeout THEN "TimeoutNotReached"
        ELSE IF ~CanPay(GM, game.player1Wager) THEN "ERC20InsufficientBalance"
        ELSE "OK"

CancelGameErr(sender, gameId) ==
    LET game == GameAt(gameId)
    IN  IF game.player1 = Zero THEN "InvalidGameId"
        ELSE IF game.status # "Created" THEN "InvalidGameStatus"
        ELSE IF sender # game.player1 THEN "NotPlayer"
        ELSE IF now < game.createdAt + cancelTimeout THEN "TimeoutNotReached"
        ELSE IF ~CanPay(GM, game.player1Wager) THEN "ERC20InsufficientBalance"
        ELSE "OK"

\* mutant: the refund leaves the edge behind
Refund_BaseOnly(game) == game.wagerAmount

\* the amount cancelGame sends back to player1
Refund(game) == game.player1Wager

CancelGame(sender, gameId) ==
    LET err == CancelGameErr(sender, gameId)
        game == GameAt(gameId)
    IN  IF err = "OK"
        THEN /\ games' = [games EXCEPT ![gameId].status = "Cancelled"]
             /\ balances' = Moved(GM, game.player1, Refund(game))
             /\ paidOut' = [paidOut EXCEPT ![gameId] = @ + Refund(game)]
             /\ outCount' = [outCount EXCEPT ![gameId] = @ + 1]
             /\ UNCHANGED <<nextGameId, backendSigner, cancelTimeout,
                            edgePercent, usedSignatures, now, paidIn, other>>
        ELSE UNCHANGED vars

(* --------------------------- admin functions -------------------------- *)

\* mutant: the modifier lets every caller through
OnlyOwnerErr_Anyone(sender) == "OK"

\* modifier onlyOwner
OnlyOwnerErr(sender) ==
    IF sender # OwnerAddr THEN "OwnableUnauthorizedAccount" ELSE "OK"

SetBackendSignerErr(sender, newSigner) ==
    IF OnlyOwnerErr(sender) # "OK" THEN OnlyOwnerErr(sender)
    ELSE IF newSigner = Zero THEN "InvalidAddress"
    ELSE "OK"

\* mutant: a rotation forgets which attestations were used
SetBackendSigner_ClearsUsed(sender, newSigner) ==
    IF SetBackendSignerErr(sender, newSigner) = "OK"
    THEN /\ backendSigner' = newSigner
         /\ usedSignatures' = {}
         /\ UNCHANGED <<games, nextGameId, cancelTimeout, edgePercent,
                        balances, now, paidIn, paidOut, outCount, other>>
    ELSE UNCHANGED vars

SetBackendSigner(sender, newSigner) ==
    IF SetBackendSignerErr(sender, newSigner) = "OK"
    THEN /\ backendSigner' = newSigner
         /\ UNCHANGED <<games, nextGameId, cancelTimeout, edgePercent,
                        usedSignatures, balances, now, paidIn, paidOut,
                        outCount, other>>
    ELSE UNCHANGED vars

\* mutant: no upper limit on the edge
SetEdgePercentErr_NoLimit(sender, gameType, newEdgePercent) ==
    OnlyOwnerErr(sender)

SetEdgePercentErr(sender, gameType, newEdgePercent) ==
    IF OnlyOwnerErr(sender) # "OK" THEN OnlyOwnerErr(sender)
    ELSE IF newEdgePercent > MAX_EDGE_PERCENT THEN "EdgePercentTooHigh"
    ELSE "OK"

SetEdgePercent(sender, gameType, newEdgePercent) ==
    IF SetEdgePercentErr(sender, gameType, newEdgePercent) = "OK"
    THEN /\ edgePercent' = [edgePercent EXCEPT ![gameType] = newEdgePercent]
         /\ UNCHANGED <<games, nextGameId, backendSigner, cancelTimeout,
                        usedSignatures, balances, now, paidIn, paidOut,
                        outCount, other>>
    ELSE UNCHANGED vars

SetCancelTimeoutErr(sender, newTimeout) == OnlyOwnerErr(sender)

SetCancelTimeout(sender, newTimeout) ==
    IF SetCancelTimeoutErr(sender, newTimeout) = "OK"
    THEN /\ cancelTimeout' = newTimeout
         /\ UNCHANGED <<games, nextGameId, backendSigner, edgePercent,
                        usedSignatures, balances, now, paidIn, paidOut,
                        outCount, other>>
    ELSE UNCHANGED vars

(* --------------------------- TicTacToeGame ---------------------------- *)

Cells == 0..8

EmptyBoard == [i \in Cells |-> 0]

\* the value a TicTacToeGame mapping slot reads before it is written
TttZeroGame ==
    [player1 |-> Zero, player2 |-> Zero, wagerAmount |-> 0,
     status |-> "Created", createdAt |-> 0, lastMoveAt |-> 0,
     currentTurn |-> Zero, winner |-> Zero, board |-> EmptyBoard,
     isDraw |-> FALSE]

\* games[gameId] of TicTacToeGame
TttGameAt(gameId) ==
    IF gameId \in DOMAIN tttGames THEN tttGames[gameId] ELSE TttZeroGame

\* _checkWin
CheckWin(board, player) ==
    \/ board[0] = player /\ board[1] = player /\ board[2] = player
    \/ board[3] = player /\ board[4] = player /\ board[5] = player
    \/ board[6] = player /\ board[7] = player /\ board[8] = player
    \/ board[0] = player /\ board[3] = player /\ board[6] = player
    \/ board[1] = player /\ board[4] = player /\ board[7] = player
    \/ board[2] = player /\ board[5] = player /\ board[8] = player
    \/ board[0] = player /\ board[4] = player /\ board[8] = player
    \/ board[2] = player /\ board[4] = player /\ board[6] = player

\* _isBoardFull
IsBoardFull(board) == \A i \in Cells : board[i] # 0

TttCreateGameErr(sender, opponent, wagerAmount) ==
    IF opponent = Zero \/ opponent = sender THEN "InvalidAddress"
    ELSE IF wagerAmount = 0 THEN "InvalidAmount"
    ELSE IF ~CanPay(sender, wagerAmount) THEN "ERC20InsufficientBalance"
    ELSE "OK"

TttNewGame(sender, opponent, wagerAmount) ==
    [player1 |-> sender, player2 |-> opponent, wagerAmount |-> wagerAmount,
     status |-> "Created", createdAt |-> now, lastMoveAt |-> 0,
     currentTurn |-> sender, winner |-> Zero, board |-> EmptyBoard,
     isDraw |-> FALSE]

TttCreateGame(sender, opponent, wagerAmount) ==
    IF TttCreateGameErr(sender, opponent, wagerAmount) = "OK"
    THEN /\ tttNextGameId' = tttNextGameId + 1
         /\ tttGames' = tttGames @@
               (tttNextGameId :> TttNewGame(sender, opponent, wagerAmount))
         /\ balances' = Moved(sender, TTT, wagerAmount)
         /\ UNCHANGED <<gmVars, now, joinTimeout, target, storeVars, offVars>>
    ELSE UNCHANGED vars

\* mutant: a game in any status can be joined
TttJoinGameErr_AnyStatus(sender, gameId) ==
    LET game == TttGameAt(gameId)
    IN  IF game.player1 = Zero THEN "InvalidGameId"
        ELSE IF sender # game.player2 THEN "NotPlayer2"
        ELSE IF ~CanPay(sender, game.wagerAmount) THEN "ERC20InsufficientBalance"
        ELSE "OK"

TttJoinGameErr(sender, gameId) ==
    LET game == TttGameAt(gameId)
    IN  IF game.player1 = Zero THEN "InvalidGameId"
        ELSE IF game.status # "Created" THEN "InvalidGameStatus"
        ELSE IF sender # game.player2 THEN "NotPlayer2"
        ELSE IF ~CanPay(sender, game.wagerAmount) THEN "ERC20InsufficientBalance"
        ELSE "OK"

TttJoinGame(sender, gameId) ==
    LET game == TttGameAt(gameId)
    IN  IF TttJoinGameErr(sender, gameId) = "OK"
        THEN /\ tttGames' = [tttGames EXCEPT ![gameId].status = "Active",
                                             ![gameId].lastMoveAt = now]
             /\ balances' = Moved(sender, TTT, game.wagerAmount)
             /\ UNCHANGED <<gmVars, now, tttNextGameId, joinTimeout, target, storeVars,
                            offVars>>
        ELSE UNCHANGED vars

\* uint8 cellState = msg.sender == game.player1 ? 1 : 2
CellState(game, sender) == IF sender = game.player1 THEN 1 ELSE 2

\* the board after the move
Marked(game, sender, position) ==
    [game.board EXCEPT ![position] = CellState(game, sender)]

\* mutant: a move after the deadline is refused
MakeMoveErr_ChecksClock(sender, gameId, position) ==
    LET game == TttGameAt(gameId)
    IN  IF game.player1 = Zero THEN "InvalidGameId"
        ELSE IF game.status # "Active" THEN "InvalidGameStatus"
        ELSE IF sender # game.currentTurn THEN "NotYourTurn"
        ELSE IF now >= game.lastMoveAt + MOVE_TIMEOUT THEN "MoveTimeout"
        ELSE IF position > 8 THEN "InvalidPosition"
        ELSE IF game.board[position] # 0 THEN "CellOccupied"
        ELSE IF CheckWin(Marked(game, sender, position), CellState(game, sender))
             THEN (IF CanPay(TTT, game.wagerAmount * 2) THEN "OK"
                   ELSE "ERC20InsufficientBalance")
        ELSE IF IsBoardFull(Marked(game, sender, position))
             THEN (IF CanPay(TTT, game.wagerAmount + game.wagerAmount)
                   THEN "OK" ELSE "ERC20InsufficientBalance")
        ELSE "OK"

MakeMoveErr(sender, gameId, position) ==
    LET game == TttGameAt(gameId)
    IN  IF game.player1 = Zero THEN "InvalidGameId"
        ELSE IF game.status # "Active" THEN "InvalidGameStatus"
        ELSE IF sender # game.currentTurn THEN "NotYourTurn"
        ELSE IF position > 8 THEN "InvalidPosition"
        ELSE IF game.board[position] # 0 THEN "CellOccupied"
        ELSE IF CheckWin(Marked(game, sender, position), CellState(game, sender))
             THEN (IF CanPay(TTT, game.wagerAmount * 2) THEN "OK"
                   ELSE "ERC20InsufficientBalance")
        ELSE IF IsBoardFull(Marked(game, sender, position))
             THEN (IF CanPay(TTT, game.wagerAmount + game.wagerAmount)
                   THEN "OK" ELSE "ERC20InsufficientBalance")
        ELSE "OK"

\* mutant: the turn stays with the mover
AfterMove_KeepsTurn(game, sender, position) ==
    LET board == Marked(game, sender, position)
        placed == [game EXCEPT !.board = board, !.lastMoveAt = now]
    IN  IF CheckWin(board, CellState(game, sender))
        THEN [placed EXCEPT !.status = "Completed", !.winner = sender]
        ELSE IF IsBoardFull(board)
        THEN [placed EXCEPT !.status = "Completed", !.isDraw = TRUE]
        ELSE placed

\* mutant: the full board is looked at before the lines
AfterMove_DrawFirst(game, sender, position) ==
    LET board == Marked(game, sender, position)
        placed == [game EXCEPT !.board = board, !.lastMoveAt = now]
    IN  IF IsBoardFull(board)
        THEN [placed EXCEPT !.status = "Completed", !.isDraw = TRUE]
        ELSE IF CheckWin(board, CellState(game, sender))
        THEN [placed EXCEPT !.status = "Completed", !.winner = sender]
        ELSE [placed EXCEPT !.currentTurn =
                 IF sender = game.player1 THEN game.player2 ELSE game.player1]

\* mutant: the move that fills the board names its mover the winner
AfterMove_DrawNamesWinner(game, sender, position) ==
    LET board == Marked(game, sender, position)
        placed == [game EXCEPT !.board = board, !.lastMoveAt = now]
    IN  IF CheckWin(board, CellState(game, sender))
        THEN [placed EXCEPT !.status = "Completed", !.winner = sender]
        ELSE IF IsBoardFull(board)
        THEN [placed EXCEPT !.status = "Completed", !.isDraw = TRUE,
                            !.winner = sender]
        ELSE [placed EXCEPT !.currentTurn =
                 IF sender = game.player1 THEN game.player2 ELSE game.player1]

\* the record makeMove leaves behind
AfterMove(game, sender, position) ==
    LET board == Marked(game, sender, position)
        placed == [game EXCEPT !.board = board, !.lastMoveAt = now]
    IN  IF CheckWin(board, CellState(game, sender))
        THEN [placed EXCEPT !.status = "Completed", !.winner = sender]
        ELSE IF IsBoardFull(board)
        THEN [placed EXCEPT !.status = "Completed", !.isDraw = TRUE]
        ELSE [placed EXCEPT !.currentTurn =
                 IF sender = game.player1 THEN game.player2 ELSE game.player1]

\* mutant: a draw refunds player1 only
MovePayout_DrawRefundsOne(game, sender, position) ==
    LET board == Marked(game, sender, position)
    IN  IF CheckWin(board, CellState(game, sender))
        THEN Moved(TTT, sender, game.wagerAmount * 2)
        ELSE IF IsBoardFull(board)
        THEN Moved(TTT, game.player1, game.wagerAmount)
        ELSE balances

\* the balances makeMove leaves behind
MovePayout(game, sender, position) ==
    LET board == Marked(game, sender, position)
    IN  IF CheckWin(board, CellState(game, sender))
        THEN Moved(TTT, sender, game.wagerAmount * 2)
        ELSE IF IsBoardFull(board)
        THEN [a \in DOMAIN balances |->
                 balances[a]
                 + (IF a = game.player1 THEN game.wagerAmount ELSE 0)
                 + (IF a = game.player2 THEN game.wagerAmount ELSE 0)
                 - (IF a = TTT THEN game.wagerAmount + game.wagerAmount ELSE 0)]
        ELSE balances

MakeMove(sender, gameId, position) ==
    LET game == TttGameAt(gameId)
    IN  IF MakeMoveErr(sender, gameId, position) = "OK"
        THEN /\ tttGames' =
                   [tttGames EXCEPT ![gameId] = AfterMove(game, sender, position)]
             /\ balances' = MovePayout(game, sender, position)
             /\ UNCHANGED <<gmVars, now, tttNextGameId, joinTimeout, target, storeVars,
                            offVars>>
        ELSE UNCHANGED vars

\* mutant: the deadline itself counts as not reached
ClaimTimeoutWinErr_Exclusive(sender, gameId) ==
    LET game == TttGameAt(gameId)
    IN  IF game.player1 = Zero THEN "InvalidGameId"
        ELSE IF game.status # "Active" THEN "InvalidGameStatus"
        ELSE IF sender # game.player1 /\ sender # game.player2 THEN "NotPlayer"
        ELSE IF sender = game.currentTurn THEN "NotYourTurn"
        ELSE IF now <= game.lastMoveAt + MOVE_TIMEOUT THEN "NoTimeoutOccurred"
        ELSE IF ~CanPay(TTT, game.wagerAmount * 2) THEN "ERC20InsufficientBalance"
        ELSE "OK"

ClaimTimeoutWinErr(sender, gameId) ==
    LET game == TttGameAt(gameId)
    IN  IF game.player1 = Zero THEN "InvalidGameId"
        ELSE IF game.status # "Active" THEN "InvalidGameStatus"
        ELSE IF sender # game.player1 /\ sender # game.player2 THEN "NotPlayer"
        ELSE IF sender = game.currentTurn THEN "NotYourTurn"
        ELSE IF now < game.lastMoveAt + MOVE_TIMEOUT THEN "NoTimeoutOccurred"
        ELSE IF ~CanPay(TTT, game.wagerAmount * 2) THEN "ERC20InsufficientBalance"
        ELSE "OK"

ClaimTimeoutWin(sender, gameId) ==
    LET game == TttGameAt(gameId)
    IN  IF ClaimTimeoutWinErr(sender, gameId) = "OK"
        THEN /\ tttGames' = [tttGames EXCEPT ![gameId].status = "Completed",
                                             ![gameId].winner = sender]
             /\ balances' = Moved(TTT, sender, game.wagerAmount * 2)
             /\ UNCHANGED <<gmVars, now, tttNextGameId, joinTimeout, target, storeVars,
                            offVars>>
        ELSE UNCHANGED vars

TttCancelGameErr(sender, gameId) ==
    LET game == TttGameAt(gameId)
    IN  IF game.player1 = Zero THEN "InvalidGameId"
        ELSE IF game.status # "Created" THEN "InvalidGameStatus"
        ELSE IF sender # game.player1 THEN "NotPlayer"
        ELSE IF now < game.createdAt + joinTimeout THEN "TimeoutNotReached"
        ELSE IF ~CanPay(TTT, game.wagerAmount) THEN "ERC20InsufficientBalance"
        ELSE "OK"

TttCancelGame(sender, gameId) ==
    LET game == TttGameAt(gameId)
    IN  IF TttCancelGameErr(sender, gameId) = "OK"
        THEN /\ tttGames' = [tttGames EXCEPT ![gameId].status = "Cancelled"]
             /\ balances' = Moved(TTT, game.player1, game.wagerAmount)
             /\ UNCHANGED <<gmVars, now, tttNextGameId, joinTimeout, target, storeVars,
                            offVars>>
        ELSE UNCHANGED vars

SetJoinTimeoutErr(sender, newTimeout) == OnlyOwnerErr(sender)

SetJoinTimeout(sender, newTimeout) ==
    IF SetJoinTimeoutErr(sender, newTimeout) = "OK"
    THEN /\ joinTimeout' = newTimeout
         /\ UNCHANGED <<gmVars, balances, now, tttGames, tttNextGameId, target, storeVars,
                        offVars>>
    ELSE UNCHANGED vars

\* the first empty cell of a board, 9 when there is none
FirstEmpty(board) ==
    IF IsBoardFull(board) THEN 9
    ELSE CHOOSE i \in Cells :
            board[i] = 0 /\ \A j \in Cells : j < i => board[j] # 0

(* ------------------- off-chain play and attestation ------------------- *)

\* winner: null
Null == "null"

\* the spellings of an address a request can carry: hexadecimal digits in
\* either case
Spellings == Players \cup {"Alice", "Bob"}

\* String.prototype.toLowerCase, on those spellings
ToLowerCase(s) ==
    IF s = "Alice" THEN "alice" ELSE IF s = "Bob" THEN "bob" ELSE s

\* Array(6).fill(null).map(() => Array(7).fill(0))
Connect4Board == [r \in 0..5 |-> [c \in 0..6 |-> 0]]

\* the state the "init" action stores; moves is the length of the move
\* list and lastPlayer the player of its last entry
InitialState(gameType, player1) ==
    [gameType |-> gameType,
     board |-> IF gameType = "connect4" THEN Connect4Board ELSE EmptyBoard,
     currentTurn |-> player1, moves |-> 0, lastPlayer |-> Null,
     winner |-> Null, isDraw |-> FALSE]

\* POST /api/games/{gameId}, action "init"
PostInit(gameId, gameType, player1) ==
    /\ gameStates' = [id \in DOMAIN gameStates \cup {gameId} |->
                         IF id = gameId THEN InitialState(gameType, player1)
                         ELSE gameStates[id]]
    /\ UNCHANGED <<gmVars, balances, now, tttVars, target, storeVars, issued>>

Lines ==
    << <<0, 1, 2>>, <<3, 4, 5>>, <<6, 7, 8>>,
       <<0, 3, 6>>, <<1, 4, 7>>, <<2, 5, 8>>,
       <<0, 4, 8>>, <<2, 4, 6>> >>

\* checkTicTacToeWin: the mark of the first complete line, 0 for null
CheckTicTacToeWin(board) ==
    LET full == {i \in DOMAIN Lines :
                    /\ board[Lines[i][1]] # 0
                    /\ board[Lines[i][1]] = board[Lines[i][2]]
                    /\ board[Lines[i][1]] = board[Lines[i][3]]}
    IN  IF full = {} THEN 0
        ELSE board[Lines[CHOOSE i \in full : \A j \in full : i <= j][1]]

\* the lowest empty row of a column, -1 when there is none
LowestEmptyRow(board, col) ==
    LET empty == {r \in 0..5 : col \in 0..6 /\ board[r][col] = 0}
    IN  IF empty = {} THEN -1
        ELSE CHOOSE r \in empty : \A q \in empty : q <= r

Directions == << <<0, 1>>, <<1, 0>>, <<1, 1>>, <<1, -1>> >>

\* how many of the next three cells in a direction hold the player's mark
\* before the first that does not
RunLength(board, row, col, dRow, dCol, player) ==
    LET held(i) == /\ row + dRow * i \in 0..5
                   /\ col + dCol * i \in 0..6
                   /\ board[row + dRow * i][col + dCol * i] = player
        ks == {k \in 0..3 : \A i \in 1..k : held(i)}
    IN  CHOOSE k \in ks : \A j \in ks : j <= k

\* checkConnect4Win
CheckConnect4Win(board, row, col, player) ==
    \E d \in DOMAIN Directions :
        1 + RunLength(board, row, col, Directions[d][1], Directions[d][2],
                      player)
          + RunLength(board, row, col, 0 - Directions[d][1],
                      0 - Directions[d][2], player) >= 4

\* mutant: a move is taken although the game is over
PostMoveErr_NoOverCheck(gameId, player, position) ==
    IF gameId \notin DOMAIN gameStates THEN "Game not found"
    ELSE IF ToLowerCase(gameStates[gameId].currentTurn) # ToLowerCase(player)
         THEN "Not your turn"
    ELSE IF gameStates[gameId].gameType = "connect4"
         THEN (IF LowestEmptyRow(gameStates[gameId].board, position) = -1
               THEN "Column is full" ELSE "OK")
    ELSE IF position \notin Cells \/ gameStates[gameId].board[position] # 0
         THEN "Cell already occupied"
    ELSE "OK"

PostMoveErr(gameId, player, position) ==
    IF gameId \notin DOMAIN gameStates THEN "Game not found"
    ELSE IF ToLowerCase(gameStates[gameId].currentTurn) # ToLowerCase(player)
         THEN "Not your turn"
    ELSE IF gameStates[gameId].winner # Null \/ gameStates[gameId].isDraw
         THEN "Game is already over"
    ELSE IF gameStates[gameId].gameType = "connect4"
         THEN (IF LowestEmptyRow(gameStates[gameId].board, position) = -1
               THEN "Column is full" ELSE "OK")
    ELSE IF position \notin Cells \/ gameStates[gameId].board[position] # 0
         THEN "Cell already occupied"
    ELSE "OK"

\* mutant: the turn passes to whoever is not the mover among alice and bob
AfterPostMove_TurnFromPlayers(state, player, position, opponent) ==
    LET connect4 == state.gameType = "connect4"
        playerNum == IF state.moves % 2 = 0 THEN 1 ELSE 2
        row == LowestEmptyRow(state.board, position)
        board == IF connect4
                 THEN [state.board EXCEPT ![row][position] = playerNum]
                 ELSE [state.board EXCEPT ![position] = playerNum]
        won == IF connect4
               THEN CheckConnect4Win(board, row, position, playerNum)
               ELSE CheckTicTacToeWin(board) # 0
        winner == IF won THEN player ELSE state.winner
        full == IF connect4 THEN \A c \in 0..6 : board[0][c] # 0
                ELSE IsBoardFull(board)
        isDraw == IF winner = Null /\ full THEN TRUE ELSE state.isDraw
    IN  [gameType |-> state.gameType,
         board |-> board,
         currentTurn |-> IF winner = Null /\ ~isDraw
                         THEN (IF ToLowerCase(player) = "alice" THEN "bob"
                               ELSE "alice")
                         ELSE state.currentTurn,
         moves |-> state.moves + 1,
         lastPlayer |-> player,
         winner |-> winner,
         isDraw |-> isDraw]

\* the state the "move" action stores
AfterPostMove(state, player, position, opponent) ==
    LET connect4 == state.gameType = "connect4"
        playerNum == IF state.moves % 2 = 0 THEN 1 ELSE 2
        row == LowestEmptyRow(state.board, position)
        board == IF connect4
                 THEN [state.board EXCEPT ![row][position] = playerNum]
                 ELSE [state.board EXCEPT ![position] = playerNum]
        won == IF connect4
               THEN CheckConnect4Win(board, row, position, playerNum)
               ELSE CheckTicTacToeWin(board) # 0
        winner == IF won THEN player ELSE state.winner
        full == IF connect4 THEN \A c \in 0..6 : board[0][c] # 0
                ELSE IsBoardFull(board)
        isDraw == IF winner = Null /\ full THEN TRUE ELSE state.isDraw
    IN  [gameType |-> state.gameType,
         board |-> board,
         currentTurn |-> IF winner = Null /\ ~isDraw THEN opponent
                         ELSE state.currentTurn,
         moves |-> state.moves + 1,
         lastPlayer |-> player,
         winner |-> winner,
         isDraw |-> isDraw]

\* POST /api/games/{gameId}, action "move"
PostMove(gameId, player, position, opponent) ==
    IF PostMoveErr(gameId, player, position) = "OK"
    THEN /\ gameStates' =
               [gameStates EXCEPT ![gameId] =
                   AfterPostMove(gameStates[gameId], player, position, opponent)]
         /\ UNCHANGED <<gmVars, balances, now, tttVars, target, storeVars, issued>>
    ELSE UNCHANGED vars

\* mutant: any winner is signed for once the game has one
PostCompleteGameErr_AnyWinner(gameId, winner) ==
    IF winner = "" THEN "Missing gameId or winner"
    ELSE IF gameId \notin DOMAIN gameStates THEN "Game not found"
    ELSE IF gameStates[gameId].isDraw
         THEN "Game ended in a draw - no winner to claim"
    ELSE IF gameStates[gameId].winner = Null THEN "Game is not finished yet"
    ELSE "OK"

\* POST /api/complete-game with the signing key configured
PostCompleteGameErr(gameId, winner) ==
    IF winner = "" THEN "Missing gameId or winner"
    ELSE IF gameId \notin DOMAIN gameStates THEN "Game not found"
    ELSE IF gameStates[gameId].isDraw
         THEN "Game ended in a draw - no winner to claim"
    ELSE IF gameStates[gameId].winner = Null THEN "Game is not finished yet"
    ELSE IF ToLowerCase(gameStates[gameId].winner) # ToLowerCase(winner)
         THEN "Invalid winner - does not match game result"
    ELSE "OK"

\* the typed data's winner is an address: the 20 bytes the string spells,
\* whatever the case of its letters
PostCompleteGame(gameId, winner) ==
    IF PostCompleteGameErr(gameId, winner) = "OK"
    THEN /\ issued' = issued \cup {Sign(BackendKey, gameId, ToLowerCase(winner))}
         /\ UNCHANGED <<gmVars, balances, now, tttVars, target, storeVars, gameStates>>
    ELSE UNCHANGED vars

\* the game page's initialisation effect
ClientInit(gameId) ==
    LET game == GameAt(gameId)
        isGameActive == \/ game.status = "Active"
                        \/ game.player2 # Zero /\ game.status # "Cancelled"
    IN  /\ isGameActive
        /\ gameId \notin DOMAIN gameStates
        /\ PostInit(gameId,
                    IF game.gameType = "ConnectFour" THEN "connect4"
                    ELSE "tictactoe",
                    game.player1)

\* the game page's makeMove callback
ClientMove(address, gameId, position) ==
    LET game == GameAt(gameId)
        opponent == IF address = game.player1 THEN game.player2
                    ELSE game.player1
    IN  /\ gameId \in DOMAIN gameStates
        /\ gameStates[gameId].currentTurn = address
        /\ PostMove(gameId, address, position, opponent)

\* the first half of the game page's handleClaimWin: ask for the signature
ClientRequestSignature(gameId) ==
    /\ gameId \in DOMAIN gameStates
    /\ gameStates[gameId].winner # Null
    /\ PostCompleteGame(gameId, gameStates[gameId].winner)

\* the second half of handleClaimWin: submit the signature that came back
ClientSubmit(sender, gameId) ==
    \E sig \in issued :
        /\ sig.gameId = gameId
        /\ CompleteGame(sender, gameId, sig.winner, sig)

(* ----------------------------- TokenStore ---------------------------- *)

\* the accounts that have approved the store for USDC, without limit
Approved == {"alice", "charlie"}

\* usdc.safeTransfer succeeds exactly when the payer holds the amount;
\* usdc.safeTransferFrom needs the payer's approval as well
CanPayUsdc(from, amount) == usdcBalances[from] >= amount

MovedUsdc(from, to, amount) ==
    [a \in DOMAIN usdcBalances |->
        IF from = to THEN usdcBalances[a]
        ELSE IF a = from THEN usdcBalances[a] - amount
        ELSE IF a = to THEN usdcBalances[a] + amount
        ELSE usdcBalances[a]]

\* calculateCost: (duelAmount * pricePerToken) / (10 ** DUEL_DECIMALS)
CalculateCost(duelAmount) == (duelAmount * pricePerToken) \div DuelUnit

\* mutant: the cost is rounded up
UsdcCost_RoundUp(duelAmount) ==
    (duelAmount * pricePerToken + DuelUnit - 1) \div DuelUnit

\* usdcCost in buyTokens
UsdcCost(duelAmount) == (duelAmount * pricePerToken) \div DuelUnit

\* mutant: the amount is looked at before the open flag
BuyTokensErr_AmountFirst(sender, duelAmount) ==
    IF duelAmount = 0 THEN "InvalidAmount"
    ELSE IF UsdcCost(duelAmount) = 0 THEN "InvalidAmount"
    ELSE IF ~isOpen THEN "StoreClosed"
    ELSE IF balances[STORE] < duelAmount THEN "InsufficientInventory"
    ELSE IF sender \notin Approved THEN "ERC20InsufficientAllowance"
    ELSE IF ~CanPayUsdc(sender, UsdcCost(duelAmount))
         THEN "ERC20InsufficientBalance"
    ELSE "OK"

\* mutant: a cost of zero is let through
BuyTokensErr_DustAllowed(sender, duelAmount) ==
    IF ~isOpen THEN "StoreClosed"
    ELSE IF duelAmount = 0 THEN "InvalidAmount"
    ELSE IF balances[STORE] < duelAmount THEN "InsufficientInventory"
    ELSE IF sender \notin Approved THEN "ERC20InsufficientAllowance"
    ELSE IF ~CanPayUsdc(sender, UsdcCost(duelAmount))
         THEN "ERC20InsufficientBalance"
    ELSE "OK"

BuyTokensErr(sender, duelAmount) ==
    IF ~isOpen THEN "StoreClosed"
    ELSE IF duelAmount = 0 THEN "InvalidAmount"
    ELSE IF UsdcCost(duelAmount) = 0 THEN "InvalidAmount"
    ELSE IF balances[STORE] < duelAmount THEN "InsufficientInventory"
    ELSE IF sender \notin Approved THEN "ERC20InsufficientAllowance"
    ELSE IF ~CanPayUsdc(sender, UsdcCost(duelAmount))
         THEN "ERC20InsufficientBalance"
    ELSE "OK"

\* mutant: the USDC is taken before the inventory is looked at and is
\* kept when the purchase fails
BuyTokens_ChargedOnFailure(sender, duelAmount) ==
    IF BuyTokensErr(sender, duelAmount) = "OK"
    THEN /\ usdcBalances' = MovedUsdc(sender, STORE, UsdcCost(duelAmount))
         /\ balances' = Moved(STORE, sender, duelAmount)
         /\ UNCHANGED <<gmVars, now, tttVars, target, offVars, pricePerToken,
                        isOpen>>
    ELSE IF /\ BuyTokensErr(sender, duelAmount) = "InsufficientInventory"
            /\ sender \in Approved
            /\ CanPayUsdc(sender, UsdcCost(duelAmount))
    THEN /\ usdcBalances' = MovedUsdc(sender, STORE, UsdcCost(duelAmount))
         /\ UNCHANGED <<gmVars, balances, now, tttVars, target, offVars,
                        pricePerToken, isOpen>>
    ELSE UNCHANGED vars

BuyTokens(sender, duelAmount) ==
    IF BuyTokensErr(sender, duelAmount) = "OK"
    THEN /\ usdcBalances' = MovedUsdc(sender, STORE, UsdcCost(duelAmount))
         /\ balances' = Moved(STORE, sender, duelAmount)
         /\ UNCHANGED <<gmVars, now, tttVars, target, offVars, pricePerToken,
                        isOpen>>
    ELSE UNCHANGED vars

SetPriceErr(sender, newPrice) ==
    IF OnlyOwnerErr(sender) # "OK" THEN OnlyOwnerErr(sender)
    ELSE IF newPrice = 0 THEN "InvalidPrice"
    ELSE "OK"

SetPrice(sender, newPrice) ==
    IF SetPriceErr(sender, newPrice) = "OK"
    THEN /\ pricePerToken' = newPrice
         /\ UNCHANGED <<gmVars, balances, now, tttVars, target, offVars,
                        isOpen, usdcBalances>>
    ELSE UNCHANGED vars

SetStoreStatusErr(sender, open) == OnlyOwnerErr(sender)

SetStoreStatus(sender, open) ==
    IF SetStoreStatusErr(sender, open) = "OK"
    THEN /\ isOpen' = open
         /\ UNCHANGED <<gmVars, balances, now, tttVars, target, offVars,
                        pricePerToken, usdcBalances>>
    ELSE UNCHANGED vars

WithdrawTokensErr(sender, to, amount) ==
    IF OnlyOwnerErr(sender) # "OK" THEN OnlyOwnerErr(sender)
    ELSE IF to = Zero THEN "InvalidAddress"
    ELSE IF amount = 0 THEN "InvalidAmount"
    ELSE IF ~CanPay(STORE, amount) THEN "ERC20InsufficientBalance"
    ELSE "OK"

WithdrawTokens(sender, to, amount) ==
    IF WithdrawTokensErr(sender, to, amount) = "OK"
    THEN /\ balances' = Moved(STORE, to, amount)
         /\ UNCHANGED <<gmVars, now, tttVars, target, offVars, storeVars>>
    ELSE UNCHANGED vars

WithdrawUsdcErr(sender, to, amount) ==
    IF OnlyOwnerErr(sender) # "OK" THEN OnlyOwnerErr(sender)
    ELSE IF to = Zero THEN "InvalidAddress"
    ELSE IF amount = 0 THEN "InvalidAmount"
    ELSE IF ~CanPayUsdc(STORE, amount) THEN "ERC20InsufficientBalance"
    ELSE "OK"

WithdrawUsdc(sender, to, amount) ==
    IF WithdrawUsdcErr(sender, to, amount) = "OK"
    THEN /\ usdcBalances' = MovedUsdc(STORE, to, amount)
         /\ UNCHANGED <<gmVars, balances, now, tttVars, target, offVars,
                        pricePerToken, isOpen>>
    ELSE UNCHANGED vars

WithdrawAllUsdcErr(sender, to) ==
    IF OnlyOwnerErr(sender) # "OK" THEN OnlyOwnerErr(sender)
    ELSE IF to = Zero THEN "InvalidAddress"
    ELSE IF usdcBalances[STORE] = 0 THEN "InvalidAmount"
    ELSE "OK"

WithdrawAllUsdc(sender, to) ==
    IF WithdrawAllUsdcErr(sender, to) = "OK"
    THEN /\ usdcBalances' = MovedUsdc(STORE, to, usdcBalances[STORE])
         /\ UNCHANGED <<gmVars, balances, now, tttVars, target, offVars,
                        pricePerToken, isOpen>>
    ELSE UNCHANGED vars

(* -------------------------------- time -------------------------------- *)

\* a later block
Tick(t) ==
    /\ t > now
    /\ now' = t
    /\ UNCHANGED <<gmVars, balances, other>>

(* --------------------------- specifications --------------------------- *)

InitState ==
    /\ games = <<>>
    /\ nextGameId = 0
    /\ backendSigner = BackendKey
    /\ cancelTimeout = DefaultCancelTimeout
    /\ edgePercent = [t \in GameTypes |->
                        IF t = "TicTacToe" THEN DefaultEdgeTicTacToe
                        ELSE DefaultEdgeConnectFour]
    /\ usedSignatures = {}
    /\ balances = [a \in Accounts \cup {OwnerAddr, GM, TTT, STORE} |->
                     IF a \in Players THEN InitialBalance
                     ELSE IF a = STORE THEN StoreInventory
                     ELSE 0]
    /\ now = 0
    /\ paidIn = <<>>
    /\ paidOut = <<>>
    /\ outCount = <<>>
    /\ tttGames = <<>>
    /\ tttNextGameId = 0
    /\ joinTimeout = DefaultJoinTimeout
    /\ gameStates = <<>>
    /\ issued = {}
    /\ pricePerToken = INITIAL_PRICE
    /\ isOpen = TRUE
    /\ usdcBalances = [a \in Accounts \cup {OwnerAddr, STORE} |->
                         IF a \in Players THEN InitialUsdc ELSE 0]

Init == InitState /\ target = GM

\* the four escrow operations and the clock, over the given input sets
Escrow(cap, senders, opponents, wagers, types, winners, times) ==
    \/ \E s \in senders, o \in opponents, w \in wagers, t \in types :
          nextGameId < cap /\ CreateGame(s, o, w, t)
    \/ \E s \in Accounts, id \in 0..(cap - 1) : JoinGame(s, id)
    \/ \E s \in {"charlie"}, id \in 0..(cap - 1), w \in winners,
          k \in Keys, sid \in 0..(cap - 1), sw \in winners :
          (sid = id \/ sw = w) /\ CompleteGame(s, id, w, Sign(k, sid, sw))
    \/ \E s \in Accounts, id \in 0..(cap - 1) : CancelGame(s, id)
    \/ \E t \in times : Tick(t)

\* Spec: the escrow lifecycle of up to MaxGames games, any attestation
\* being available to any caller
Next ==
    Escrow(MaxGames, Accounts, Players \cup {Zero}, WagerInputs, GameTypes,
           Accounts, TimePoints)

Spec == Init /\ [][Next]_vars

\* SpecReject: stakes so large that a second stake cannot be paid, so
\* that createGame and joinGame also fail in the token transfer
RejectWagers == {0, 200}

NextReject ==
    Escrow(MaxGames, Accounts, Players \cup {Zero}, RejectWagers,
           {"TicTacToe"}, Accounts, TimePoints)

SpecReject == Init /\ [][NextReject]_vars

\* SpecAttest: games of one stake between the two players, completeGame
\* being sent by any account with an attestation of either key
NextAttest ==
    \/ \E s \in Players, o \in Players :
          nextGameId < MaxGames /\ CreateGame(s, o, 100, "TicTacToe")
    \/ \E s \in Players, id \in 0..(MaxGames - 1) : JoinGame(s, id)
    \/ \E s \in Accounts, id \in 0..(MaxGames - 1), w \in Accounts,
          k \in Keys : CompleteGame(s, id, w, Sign(k, id, w))
    \/ \E s \in Players, id \in 0..(MaxGames - 1) : CancelGame(s, id)
    \/ \E t \in {0, 86400} : Tick(t)

SpecAttest == Init /\ [][NextAttest]_vars

\* SpecSigner: the lifecycle while the owner rotates the backend signer
NextSigner ==
    \/ Escrow(MaxGames, {"alice"}, {"bob"}, {100}, {"TicTacToe"}, Players,
              {0, 86400})
    \/ \E s \in {OwnerAddr, "alice"}, k \in Keys \cup {Zero} :
          SetBackendSigner(s, k)

SpecSigner == Init /\ [][NextSigner]_vars

\* SpecEdge: the lifecycle while the owner changes the edge schedule
NextEdge ==
    \/ Escrow(MaxGames, {"alice"}, {"bob"}, {110}, GameTypes, Players,
              {0, 86400})
    \/ \E s \in {OwnerAddr, "alice"}, t \in GameTypes, e \in EdgeInputs :
          SetEdgePercent(s, t, e)

SpecEdge == Init /\ [][NextEdge]_vars

\* SpecTimeout: the lifecycle while the owner changes the cancel timeout
NextTimeout ==
    \/ Escrow(MaxGames, {"alice"}, {"bob"}, {100}, {"TicTacToe"}, Players,
              FineTimePoints)
    \/ \E s \in {OwnerAddr, "alice"}, d \in TimeoutInputs :
          SetCancelTimeout(s, d)

SpecTimeout == Init /\ [][NextTimeout]_vars

\* SpecOwner: the owner and a player call every configuration operation
\* of the two contracts while the player buys from the store
StoreAmounts == {0, 500, 4000}
PriceInputs == {0, 1, 20000}
UsdcAmounts == {0, 5000}
Recipients == {OwnerAddr, Zero}

NextOwner ==
    \/ \E d \in StoreAmounts : BuyTokens("alice", d)
    \/ \E s \in {OwnerAddr, "alice"}, p \in PriceInputs : SetPrice(s, p)
    \/ \E s \in {OwnerAddr, "alice"}, b \in BOOLEAN : SetStoreStatus(s, b)
    \/ \E s \in {OwnerAddr, "alice"}, to \in Recipients,
          d \in StoreAmounts : WithdrawTokens(s, to, d)
    \/ \E s \in {OwnerAddr, "alice"}, to \in Recipients,
          u \in UsdcAmounts : WithdrawUsdc(s, to, u)
    \/ \E s \in {OwnerAddr, "alice"}, to \in Recipients :
          WithdrawAllUsdc(s, to)
    \/ \E s \in {OwnerAddr, "alice"}, k \in Keys \cup {Zero} :
          SetBackendSigner(s, k)
    \/ \E s \in {OwnerAddr, "alice"}, e \in EdgeInputs :
          SetEdgePercent(s, "TicTacToe", e)
    \/ \E s \in {OwnerAddr, "alice"}, d \in TimeoutInputs :
          SetCancelTimeout(s, d)

SpecOwner == Init /\ [][NextOwner]_vars

\* SpecStore: purchases by a funded account, by one that holds USDC but
\* has not approved the store and by one that holds none, while the
\* owner changes the price, closes and reopens the store and withdraws
BuyAmounts == {0, 500, 1500, 4000}
StorePrices == {0, 1, 20000}

NextStore ==
    \/ \E s \in Accounts, d \in BuyAmounts : BuyTokens(s, d)
    \/ \E p \in StorePrices : SetPrice(OwnerAddr, p)
    \/ \E b \in BOOLEAN : SetStoreStatus(OwnerAddr, b)
    \/ WithdrawTokens(OwnerAddr, OwnerAddr, 1500)
    \/ WithdrawAllUsdc(OwnerAddr, OwnerAddr)

SpecStore == Init /\ [][NextStore]_vars

\* the operations of TicTacToeGame and the clock, over the given inputs
Board(cap, senders, opponents, wagers, times) ==
    \/ \E s \in senders, o \in opponents, w \in wagers :
          tttNextGameId < cap /\ TttCreateGame(s, o, w)
    \/ \E s \in Accounts, id \in 0..(cap - 1) : TttJoinGame(s, id)
    \/ \E s \in Accounts, id \in 0..(cap - 1), p \in 0..9 :
          /\ p <= FirstEmpty(TttGameAt(id).board) + MaxSkip
          /\ MakeMove(s, id, p)
    \/ \E s \in Accounts, id \in 0..(cap - 1) : ClaimTimeoutWin(s, id)
    \/ \E s \in Accounts, id \in 0..(cap - 1) : TttCancelGame(s, id)
    \/ \E t \in times : Tick(t)

\* SpecLifecycle: the transactions go to one of the two contracts, which
\* do not call each other
NextLifecycle ==
    \/ /\ target = GM
       /\ Escrow(MaxGames, Players, Players, {100}, {"TicTacToe"}, Accounts,
                 {0, 86400})
    \/ /\ target = TTT
       /\ Board(MaxBoards, {"alice"}, {"bob"}, {100}, {0, 86400})

InitLifecycle == InitState /\ target \in {GM, TTT}

SpecLifecycle == InitLifecycle /\ [][NextLifecycle]_vars

\* SpecForfeit: TicTacToeGame around the move deadline; each move takes
\* the first empty cell, the board playing no part in a forfeit
MoveTimePoints == {0, 119, 120, 239}

NextForfeit ==
    \/ \E s \in Players, o \in Players :
          tttNextGameId < MaxBoards /\ TttCreateGame(s, o, 100)
    \/ \E s \in Accounts, id \in 0..(MaxBoards - 1) : TttJoinGame(s, id)
    \/ \E s \in Accounts, id \in 0..(MaxBoards - 1) :
          MakeMove(s, id, FirstEmpty(TttGameAt(id).board))
    \/ \E s \in Accounts, id \in 0..(MaxBoards - 1) : ClaimTimeoutWin(s, id)
    \/ \E t \in MoveTimePoints : Tick(t)

InitForfeit == InitState /\ target = TTT

SpecForfeit == InitForfeit /\ [][NextForfeit]_vars

\* SpecSettle: GameManager games played through the game page, the
\* game-state service and the signing endpoint. The page initialises a
\* game's state once, the player to move moves, the page asks for the
\* signature when a winner is recorded and submits what it gets.
NextSettle ==
    \/ nextGameId < MaxBoards /\ CreateGame("alice", "bob", 100, "TicTacToe")
    \/ \E s \in Players, id \in 0..(MaxBoards - 1) : JoinGame(s, id)
    \/ \E id \in 0..(MaxBoards - 1) : ClientInit(id)
    \/ \E s \in Players, id \in 0..(MaxBoards - 1), p \in Cells :
          /\ id \in DOMAIN gameStates
          /\ p <= FirstEmpty(gameStates[id].board) + MaxSkip
          /\ ClientMove(s, id, p)
    \/ \E id \in 0..(MaxBoards - 1) : ClientRequestSignature(id)
    \/ \E s \in Players, id \in 0..(MaxBoards - 1) : ClientSubmit(s, id)

\* every party keeps going: whatever step of a game stays possible is taken
FairSettle ==
    \A id \in 0..(MaxBoards - 1) :
        /\ WF_vars(\E s \in Players : JoinGame(s, id))
        /\ WF_vars(ClientInit(id))
        /\ WF_vars(\E s \in Players, p \in Cells :
                      /\ id \in DOMAIN gameStates
                      /\ p <= FirstEmpty(gameStates[id].board) + MaxSkip
                      /\ ClientMove(s, id, p))
        /\ WF_vars(ClientRequestSignature(id))
        /\ WF_vars(\E s \in Players : ClientSubmit(s, id))

SpecSettle == Init /\ [][NextSettle]_vars /\ FairSettle

\* SpecService: the game-state service and the signing endpoint taking
\* requests from anyone. Game 0 is initialised, and initialised again, as
\* either game type for any starting player; moves name any sender and any
\* opponent; game 1 is never initialised. In a Connect Four game the
\* first mark is dropped into column 0 and the second into column 0 or 1,
\* and both try the column 7 the board does not have.
ServiceNames == {"alice", "Alice", "bob"}
ServiceTypes == {"tictactoe", "connect4"}
ServiceIds == {0, 1}
Columns(moves) == IF moves % 2 = 0 THEN {0, 7} ELSE {0, 1, 7}

NextService ==
    \/ \E gt \in ServiceTypes, p1 \in ServiceNames : PostInit(0, gt, p1)
    \/ \E id \in ServiceIds, s \in ServiceNames, o \in ServiceNames,
          p \in 0..9 :
          /\ IF id \notin DOMAIN gameStates THEN p = 0
             ELSE IF gameStates[id].gameType = "connect4"
                  THEN p \in Columns(gameStates[id].moves)
             ELSE p <= FirstEmpty(gameStates[id].board) + MaxSkip
          /\ PostMove(id, s, p, o)
    \/ \E id \in ServiceIds, w \in ServiceNames \cup {""} :
          PostCompleteGame(id, w)

SpecService == Init /\ [][NextService]_vars

(* ------------------------------ claims -------------------------------- *)

\* the steps of the escrow operations, recognised by what they write
IsCreate == nextGameId' = nextGameId + 1
IsJoin(id) == games[id].status = "Created" /\ games'[id].status = "Active"
IsComplete(id) == games[id].status = "Active" /\ games'[id].status = "Completed"
IsCancel(id) == games[id].status = "Created" /\ games'[id].status = "Cancelled"

\* every attestation a caller could hold for a call on (id, w)
AnyAttestation == {Sign(k, id, w) : k \in Keys, id \in 0..(MaxGames - 1), w \in Accounts}

\* C1: over any sequence of completeGame calls for one game the pot is
\* transferred out at most once; once it has been, every further
\* completeGame for that game, whatever winner and attestation it names,
\* is rejected.
C1_NoDoublePayout ==
    \A id \in DOMAIN games :
        /\ outCount[id] <= 1
        /\ outCount[id] = 1 =>
              \A w \in Accounts, sig \in AnyAttestation :
                  CompleteGameErr(id, w, sig) # "OK"

\* a game has been completed, the attestation naming the other player has
\* never been used, and the contract still holds enough for a second payout
C1_Witness ==
    \E id \in DOMAIN games :
        /\ games[id].status = "Completed"
        /\ outCount[id] = 1
        /\ games[id].winner = games[id].player1
        /\ Digest(id, games[id].player2) \notin usedSignatures
        /\ balances[GM] >= TotalPayout(games[id])

Escrowed(game) ==
    IF game.status = "Created" THEN game.player1Wager
    ELSE IF game.status = "Active" THEN game.player1Wager + game.wagerAmount
    ELSE 0

RECURSIVE SumEscrowed(_)
SumEscrowed(ids) ==
    IF ids = {} THEN 0
    ELSE LET id == CHOOSE x \in ids : TRUE
         IN  Escrowed(games[id]) + SumEscrowed(ids \ {id})

C4_ReplayIsolation ==
    \A id \in 0..(MaxGames - 1), w \in Accounts, sig \in AnyAttestation :
        (sig.gameId # id \/ sig.winner # w) => CompleteGameErr(id, w, sig) # "OK"

\* two Active games with the same players: the attestation for (0, A) is
\* accepted for (0, A) and is refused for (1, A) and for (0, B) only
\* because of the signature
C4_Witness ==
    /\ DOMAIN games = {0, 1}
    /\ games[0].status = "Active" /\ games[1].status = "Active"
    /\ games[0].player1 = games[1].player1
    /\ LET A == games[0].player1
           B == games[0].player2
           sig == Sign(backendSigner, 0, A)
       IN  /\ CompleteGameErr(0, A, sig) = "OK"
           /\ CompleteGameErr(1, A, sig) = "InvalidSignature"
           /\ CompleteGameErr(0, B, sig) = "InvalidSignature"

\* C7: a setEdgePercent after createGame changes neither the stored stake
\* of the game nor what completeGame pays or cancelGame refunds for it;
\* a game created afterwards is staked at the edge in force at its creation.
C7_EdgeSnapshot ==
    [][ /\ \A id \in DOMAIN games :
              /\ games'[id].player1Wager = games[id].player1Wager
              /\ games'[id].wagerAmount = games[id].wagerAmount
              /\ IsComplete(id) =>
                    balances'[games'[id].winner] - balances[games'[id].winner]
                        = games[id].player1Wager + games[id].wagerAmount
              /\ IsCancel(id) =>
                    balances'[games[id].player1] - balances[games[id].player1]
                        = games[id].player1Wager
        /\ IsCreate =>
              LET g == games'[nextGameId]
              IN  g.player1Wager = g.wagerAmount +
                     (g.wagerAmount * edgePercent[g.gameType]) \div BASIS_POINTS
      ]_vars

\* a game was completed at its recorded stake after the edge of its type
\* had been changed
C7_Witness ==
    \E id \in DOMAIN games :
        /\ games[id].status = "Completed"
        /\ games[id].player1Wager #
              CalculatePlayer1Wager(games[id].wagerAmount, games[id].gameType)
        /\ paidOut[id] = games[id].player1Wager + games[id].wagerAmount

C10_TestStakeSplit ==
    [][ /\ IsCreate =>
              LET g == games'[nextGameId]
              IN  balances[g.player1] - balances'[g.player1] = g.wagerAmount
        /\ \A id \in DOMAIN games :
              /\ IsJoin(id) =>
                    balances[games[id].player2] - balances'[games[id].player2]
                        = (games[id].wagerAmount *
                             (BASIS_POINTS - edgePercent[games[id].gameType]))
                          \div BASIS_POINTS
              /\ IsCancel(id) =>
                    balances'[games[id].player1] - balances[games[id].player1]
                        = games[id].wagerAmount
      ]_vars

\* the steps a game status may take: none, or one step forward
Forward(before, after) ==
    \/ after = before
    \/ before = "Created" /\ after \in {"Active", "Cancelled"}
    \/ before = "Active" /\ after = "Completed"

\* C5: in GameManager and in TicTacToeGame every step leaves each game's
\* status where it was or moves it forward (Created to Active, Created to
\* Cancelled, Active to Completed); a Completed or Cancelled game keeps its
\* status and no game returns to Created.
C5_MonotonicLifecycle ==
    [][ /\ \A id \in DOMAIN games :
              Forward(games[id].status, games'[id].status)
        /\ \A id \in DOMAIN tttGames :
              Forward(tttGames[id].status, tttGames'[id].status) ]_vars

\* a TicTacToeGame game is over while its second player could still pay
\* the stake of a join
C5_Witness ==
    \E id \in DOMAIN tttGames :
        /\ tttGames[id].status \in {"Completed", "Cancelled"}
        /\ CanPay(tttGames[id].player2, tttGames[id].wagerAmount)

\* the stake of a game has left GameManager
Settled(id) ==
    /\ id \in DOMAIN games
    /\ outCount[id] > 0
    /\ paidOut[id] = paidIn[id]

\* C6: the stake of an Active GameManager game leaves escrow eventually,
\* whatever the off-chain play ends in: when every party keeps taking the
\* steps open to it, an Active game is followed by a state in which its
\* stake has been paid out.
C6_StakeLeavesEscrow ==
    \A id \in 0..(MaxBoards - 1) :
        (GameAt(id).status = "Active") ~> Settled(id)

\* what a rejected call must leave alone
Protected == <<games, nextGameId, usedSignatures, balances>>

\* C11: a GameManager call that is rejected, at whichever check and also
\* when the token transfer fails after the id, the record or the status
\* was written, leaves games, nextGameId, usedSignatures and all balances
\* as they were; so a digest is marked used only for a game completed for
\* that winner.
C11_RejectedLeavesState ==
    /\ [](\A d \in usedSignatures :
             /\ d[1] \in DOMAIN games
             /\ games[d[1]].status = "Completed"
             /\ games[d[1]].winner = d[2])
    /\ [][ /\ \A s \in Accounts, o \in Players \cup {Zero},
                w \in RejectWagers, t \in GameTypes :
                 (CreateGameErr(s, o, w, t) # "OK" /\ CreateGame(s, o, w, t))
                    => UNCHANGED Protected
           /\ \A s \in Accounts, id \in 0..(MaxGames - 1) :
                 /\ (JoinGameErr(s, id) # "OK" /\ JoinGame(s, id))
                       => UNCHANGED Protected
                 /\ (CancelGameErr(s, id) # "OK" /\ CancelGame(s, id))
                       => UNCHANGED Protected
           /\ \A id \in 0..(MaxGames - 1), w \in Accounts,
                sig \in AnyAttestation :
                 (CompleteGameErr(id, w, sig) # "OK"
                     /\ CompleteGame("charlie", id, w, sig))
                    => UNCHANGED Protected
         ]_vars

\* both players are out of funds for a further stake: a join and a create
\* fail in the token transfer
C11_Witness ==
    /\ \E id \in DOMAIN games :
          /\ games[id].status = "Created"
          /\ JoinGameErr(games[id].player2, id) = "ERC20InsufficientBalance"
    /\ \E s \in Players, o \in Players :
          CreateGameErr(s, o, 200, "TicTacToe") = "ERC20InsufficientBalance"

\* C12: createGame answers InvalidAddress when the opponent is the null
\* address or the caller and InvalidAmount when wagerAmount is 0 (the
\* address being checked first); every stored game has two distinct
\* non-null players and a positive wagerAmount.
C12_CreateValidation ==
    /\ \A s \in Accounts, o \in Accounts \cup {Zero}, w \in RejectWagers,
         t \in GameTypes :
          /\ (o = Zero \/ o = s) => CreateGameErr(s, o, w, t) = "InvalidAddress"
          /\ (o # Zero /\ o # s /\ w = 0)
                => CreateGameErr(s, o, w, t) = "InvalidAmount"
          /\ CreateGameErr(s, o, w, t) = "OK" => (o # Zero /\ o # s /\ w > 0)
    /\ \A id \in DOMAIN games :
          /\ games[id].player1 # games[id].player2
          /\ games[id].player1 # Zero
          /\ games[id].player2 # Zero
          /\ games[id].wagerAmount > 0

\* one game is stored and a further createGame, also one naming the
\* caller, the null address or a zero wager, can still be sent
C12_Witness ==
    /\ nextGameId = 1
    /\ games[0].status = "Created"
    /\ balances[GM] = games[0].player1Wager
    /\ CanPay(games[0].player2, 210)

\* C13: game ids are handed out 0, 1, 2, ... by the successful createGame
\* calls: nextGameId is the number of stored games, the stored ids are
\* exactly 0 .. nextGameId - 1, a createGame step stores one new game under
\* the old nextGameId and leaves who plays every earlier game alone, a
\* rejected createGame leaves nextGameId alone, and no other step moves it.
C13_GameIds ==
    /\ [](/\ DOMAIN games = 0..(nextGameId - 1)
          /\ Cardinality(DOMAIN games) = nextGameId)
    /\ [][ /\ nextGameId' \in {nextGameId, nextGameId + 1}
           /\ nextGameId' = nextGameId => DOMAIN games' = DOMAIN games
           /\ IsCreate => /\ DOMAIN games' = DOMAIN games \cup {nextGameId}
                          /\ nextGameId \notin DOMAIN games
           /\ \A id \in DOMAIN games :
                 /\ id \in DOMAIN games'
                 /\ games'[id].player1 = games[id].player1
                 /\ games'[id].player2 = games[id].player2
                 /\ games'[id].createdAt = games[id].createdAt
           /\ \A s \in Accounts, o \in Players \cup {Zero}, w \in RejectWagers,
                t \in GameTypes :
                 (CreateGameErr(s, o, w, t) # "OK" /\ CreateGame(s, o, w, t))
                    => nextGameId' = nextGameId
         ]_vars

\* two games were created by different callers at different times
C13_Witness ==
    /\ nextGameId = 2
    /\ games[0].player1 # games[1].player1
    /\ games[0].createdAt < games[1].createdAt

\* the attestation a completed game was completed with
UsedAttestation(id) == Sign(backendSigner, id, games[id].winner)

\* C14 as stated: once completeGame has succeeded for a game, the same
\* call again (same gameId, winner and signature) is rejected with
\* SignatureAlreadyUsed.
C14_SecondCallAlreadyUsed ==
    \A id \in DOMAIN games :
        games[id].status = "Completed" =>
            CompleteGameErr(id, games[id].winner, UsedAttestation(id))
                = "SignatureAlreadyUsed"

\* C14 as amended: once completeGame has succeeded for a game, its digest
\* is marked used and the same call again is rejected, with
\* InvalidGameStatus, the status being checked before the replay mark.
C14_SecondCallRejected ==
    \A id \in DOMAIN games :
        games[id].status = "Completed" =>
            /\ Digest(id, games[id].winner) \in usedSignatures
            /\ CompleteGameErr(id, games[id].winner, UsedAttestation(id))
                  = "InvalidGameStatus"

\* a game was completed for its second player while the contract holds
\* the stake of another joined game, enough to pay the pot again
C14_Witness ==
    \E id, b \in DOMAIN games :
        /\ games[id].status = "Completed"
        /\ games[id].winner = games[id].player2
        /\ games[b].status = "Active"
        /\ balances[GM] >= TotalPayout(games[id])

\* C15: completeGame answers with the first failing check in the order
\* game exists, status is Active, winner is a player, attestation unused,
\* signer correct: a game that is not Active gives InvalidGameStatus
\* whatever the winner and the signature, and a winner that is not a player
\* of an Active game gives InvalidWinner also under a genuine signature.
C15_CheckOrder ==
    \A id \in 0..(MaxGames - 1), w \in Accounts, sig \in AnyAttestation :
        LET game == GameAt(id)
            err == CompleteGameErr(id, w, sig)
            isPlayer == w = game.player1 \/ w = game.player2
            used == Digest(id, w) \in usedSignatures
        IN  /\ id \notin DOMAIN games => err = "InvalidGameId"
            /\ (id \in DOMAIN games /\ game.status # "Active")
                  => err = "InvalidGameStatus"
            /\ (id \in DOMAIN games /\ game.status = "Active" /\ ~isPlayer)
                  => err = "InvalidWinner"
            /\ (id \in DOMAIN games /\ game.status = "Active" /\ isPlayer
                  /\ used) => err = "SignatureAlreadyUsed"
            /\ (id \in DOMAIN games /\ game.status = "Active" /\ isPlayer
                  /\ ~used /\ (sig.key # backendSigner \/ sig.gameId # id
                                 \/ sig.winner # w))
                  => err = "InvalidSignature"

\* a Created game, for which a genuine attestation over a player is at
\* hand, next to an Active game, for which one over a stranger is
C15_Witness ==
    \E a, b \in DOMAIN games :
        /\ games[a].status = "Created"
        /\ games[b].status = "Active"
        /\ CompleteGameErr(a, games[a].player1,
                           Sign(backendSigner, a, games[a].player1))
              = "InvalidGameStatus"
        /\ CompleteGameErr(b, "charlie", Sign(backendSigner, b, "charlie"))
              = "InvalidWinner"

\* C16: completeGame does the same whoever sends it: for the same gameId,
\* winner and signature a step is a step of one caller's call exactly when
\* it is a step of any other caller's call; the pot goes to the winner the
\* call names and no other account's balance moves.
C16_CallerIndependent ==
    [][ /\ \A s \in Accounts, id \in 0..(MaxGames - 1), w \in Accounts,
             k \in Keys :
              CompleteGame("charlie", id, w, Sign(k, id, w))
                 <=> CompleteGame(s, id, w, Sign(k, id, w))
        /\ \A id \in DOMAIN games :
              IsComplete(id) =>
                 \A a \in Accounts :
                    balances'[a] = balances[a] +
                       (IF a = games'[id].winner THEN TotalPayout(games[id])
                        ELSE 0)
      ]_vars

\* a game was completed and its pot is with the winner, while an account
\* that is no player of it holds nothing
C16_Witness ==
    \E id \in DOMAIN games :
        /\ games[id].status = "Completed"
        /\ balances[games[id].winner] >= TotalPayout(games[id])
        /\ balances["charlie"] = 0
        /\ paidOut[id] = TotalPayout(games[id])

\* C17: verifySignature returns true exactly when the signature was made
\* by the current backendSigner over (gameId, winner) and that digest is
\* not in usedSignatures; it is true of the attestation completeGame is
\* about to consume and false of every attestation for that game and
\* winner from then on.
C17_VerifyProbe ==
    /\ [](/\ \A id \in 0..(MaxGames - 1), w \in Accounts,
               sig \in AnyAttestation :
                VerifySignature(id, w, sig)
                   <=> /\ sig.key = backendSigner
                       /\ sig.gameId = id /\ sig.winner = w
                       /\ Digest(id, w) \notin usedSignatures
          /\ \A id \in DOMAIN games, k \in Keys :
                games[id].status = "Completed" =>
                   ~VerifySignature(id, games[id].winner,
                                    Sign(k, id, games[id].winner)))
    /\ [][\A id \in DOMAIN games, w \in Accounts, k \in Keys :
             (IsComplete(id) /\ games'[id].winner = w /\ k = backendSigner)
                => /\ VerifySignature(id, w, Sign(k, id, w))
                   /\ ~(VerifySignature(id, w, Sign(k, id, w)))'
         ]_vars

\* the probe answers false for the attestation of a completed game and
\* true for one of a game still Active, after a rotation of the signer
C17_Witness ==
    \E a, b \in DOMAIN games :
        /\ games[a].status = "Completed"
        /\ games[b].status = "Active"
        /\ backendSigner = OtherKey
        /\ ~VerifySignature(a, games[a].winner,
                            Sign(backendSigner, a, games[a].winner))
        /\ VerifySignature(b, games[b].player1,
                           Sign(backendSigner, b, games[b].player1))

\* C18: a step that changes backendSigner changes nothing else: no game,
\* no usedSignatures entry, no balance; and in every state completeGame
\* on an Active game with an unused attestation over a player succeeds when
\* the attestation is signed by the current signer and fails with
\* InvalidSignature when signed by another key, a replaced one included.
C18_SignerRotation ==
    /\ [][ backendSigner' # backendSigner =>
              UNCHANGED <<games, nextGameId, cancelTimeout, edgePercent,
                          usedSignatures, balances, paidIn, paidOut,
                          outCount>> ]_vars
    /\ [](\A id \in DOMAIN games, k \in Keys :
             games[id].status = "Active" =>
                \A w \in {games[id].player1, games[id].player2} :
                   Digest(id, w) \notin usedSignatures =>
                      CompleteGameErr(id, w, Sign(k, id, w)) =
                         IF k = backendSigner THEN "OK"
                         ELSE "InvalidSignature")

\* the signer was rotated after one game was settled and while another
\* is Active
C18_Witness ==
    \E a, b \in DOMAIN games :
        /\ games[a].status = "Completed"
        /\ games[b].status = "Active"
        /\ backendSigner = OtherKey
        /\ usedSignatures # {}
        /\ CompleteGameErr(b, games[b].player1,
                           Sign(BackendKey, b, games[b].player1))
              = "InvalidSignature"

\* C19: no game type's edge ever exceeds 5000 basis points: setEdgePercent
\* by the owner answers EdgePercentTooHigh above 5000, leaving the schedule
\* as it was, and stores every value up to 5000; so every stored game has
\* wagerAmount <= player1Wager <= wagerAmount + wagerAmount / 2.
C19_EdgeLimit ==
    /\ [](/\ \A t \in GameTypes : edgePercent[t] \in 0..5000
          /\ \A t \in GameTypes, e \in EdgeInputs :
                SetEdgePercentErr(OwnerAddr, t, e) =
                   IF e > 5000 THEN "EdgePercentTooHigh" ELSE "OK"
          /\ \A id \in DOMAIN games :
                /\ games[id].wagerAmount <= games[id].player1Wager
                /\ games[id].player1Wager <=
                      games[id].wagerAmount + games[id].wagerAmount \div 2)
    /\ [][\A t \in GameTypes, e \in EdgeInputs :
             SetEdgePercent(OwnerAddr, t, e) =>
                edgePercent' = IF e > 5000 THEN edgePercent
                               ELSE [edgePercent EXCEPT ![t] = e]
         ]_vars

\* the edge of a game type stands at the limit and a game was staked at it,
\* while the other type has no edge at all
C19_Witness ==
    \E id \in DOMAIN games, t \in GameTypes :
        /\ edgePercent[games[id].gameType] = 5000
        /\ edgePercent[t] = 0
        /\ games[id].player1Wager =
              games[id].wagerAmount + games[id].wagerAmount \div 2

\* the accounts that are not the owner
NotOwner == Accounts \ {OwnerAddr}

\* C20: setBackendSigner, setEdgePercent and setCancelTimeout of
\* GameManager and setPrice, setStoreStatus, withdrawTokens, withdrawUsdc
\* and withdrawAllUsdc of TokenStore take effect only when the owner calls
\* them. In every state a call of any of them by another account is
\* rejected as unauthorized whatever its arguments, the step of such a call
\* changes no variable, and every step that changes a configuration value
\* or takes funds out of the store other than by a purchase is a step of
\* the owner's call.
C20_OnlyOwner ==
    /\ [](\A s \in NotOwner :
             /\ \A k \in Keys \cup {Zero} :
                   SetBackendSignerErr(s, k) = "OwnableUnauthorizedAccount"
             /\ \A t \in GameTypes, e \in EdgeInputs :
                   SetEdgePercentErr(s, t, e) = "OwnableUnauthorizedAccount"
             /\ \A d \in TimeoutInputs :
                   SetCancelTimeoutErr(s, d) = "OwnableUnauthorizedAccount"
             /\ \A p \in PriceInputs :
                   SetPriceErr(s, p) = "OwnableUnauthorizedAccount"
             /\ \A b \in BOOLEAN :
                   SetStoreStatusErr(s, b) = "OwnableUnauthorizedAccount"
             /\ \A to \in Recipients, d \in StoreAmounts :
                   WithdrawTokensErr(s, to, d) = "OwnableUnauthorizedAccount"
             /\ \A to \in Recipients, u \in UsdcAmounts :
                   WithdrawUsdcErr(s, to, u) = "OwnableUnauthorizedAccount"
             /\ \A to \in Recipients :
                   WithdrawAllUsdcErr(s, to) = "OwnableUnauthorizedAccount")
    /\ [][ /\ \A s \in NotOwner :
                (\/ \E k \in Keys \cup {Zero} : SetBackendSigner(s, k)
                 \/ \E t \in GameTypes, e \in EdgeInputs :
                       SetEdgePercent(s, t, e)
                 \/ \E d \in TimeoutInputs : SetCancelTimeout(s, d)
                 \/ \E p \in PriceInputs : SetPrice(s, p)
                 \/ \E b \in BOOLEAN : SetStoreStatus(s, b)
                 \/ \E to \in Recipients, d \in StoreAmounts :
                       WithdrawTokens(s, to, d)
                 \/ \E to \in Recipients, u \in UsdcAmounts :
                       WithdrawUsdc(s, to, u)
                 \/ \E to \in Recipients : WithdrawAllUsdc(s, to))
                => UNCHANGED vars
           /\ backendSigner' # backendSigner
                 => \E k \in Keys : SetBackendSigner(OwnerAddr, k)
           /\ edgePercent' # edgePercent
                 => \E t \in GameTypes, e \in EdgeInputs :
                       SetEdgePercent(OwnerAddr, t, e)
           /\ cancelTimeout' # cancelTimeout
                 => \E d \in TimeoutInputs : SetCancelTimeout(OwnerAddr, d)
           /\ pricePerToken' # pricePerToken
                 => \E p \in PriceInputs : SetPrice(OwnerAddr, p)
           /\ isOpen' # isOpen
                 => \E b \in BOOLEAN : SetStoreStatus(OwnerAddr, b)
           /\ usdcBalances'[STORE] < usdcBalances[STORE]
                 => \E to \in Recipients :
                       \/ WithdrawAllUsdc(OwnerAddr, to)
                       \/ \E u \in UsdcAmounts : WithdrawUsdc(OwnerAddr, to, u)
           /\ (balances'[STORE] < balances[STORE]
               /\ usdcBalances' = usdcBalances)
                 => \E to \in Recipients, d \in StoreAmounts :
                       WithdrawTokens(OwnerAddr, to, d) ]_vars

\* the owner has changed every configuration value and taken tokens and
\* USDC out of the store, which still holds funds of both kinds that a
\* withdrawal by another account would move
C20_Witness ==
    /\ backendSigner = OtherKey
    /\ edgePercent["TicTacToe"] = MAX_EDGE_PERCENT
    /\ cancelTimeout = 1
    /\ pricePerToken = 20000
    /\ ~isOpen
    /\ balances[OwnerAddr] > 0
    /\ usdcBalances[OwnerAddr] > 0
    /\ balances[STORE] >= 500
    /\ usdcBalances[STORE] >= 5000
    /\ WithdrawTokensErr(OwnerAddr, OwnerAddr, 500) = "OK"
    /\ WithdrawAllUsdcErr("alice", "alice") = "OwnableUnauthorizedAccount"

\* C21: joinGame succeeds only when the game exists, is Created and the
\* caller is the stored player2. In every state a call for an id that was
\* never assigned fails with InvalidGameId, for a game that is not Created
\* with InvalidGameStatus whoever calls, and for a Created game by anyone
\* but player2 with NotPlayer2; a step that makes a game Active takes it
\* from Created, pulls player2's wagerAmount, changes no other field of
\* it and no other game; and a game that has left Created never returns,
\* so it is joined at most once.
C21_JoinValidation ==
    /\ [](\A s \in Accounts, id \in 0..MaxGames :
             /\ id \notin DOMAIN games => JoinGameErr(s, id) = "InvalidGameId"
             /\ (id \in DOMAIN games /\ games[id].status # "Created")
                   => JoinGameErr(s, id) = "InvalidGameStatus"
             /\ (id \in DOMAIN games /\ games[id].status = "Created"
                 /\ s # games[id].player2)
                   => JoinGameErr(s, id) = "NotPlayer2"
             /\ JoinGameErr(s, id) = "OK"
                   => /\ id \in DOMAIN games
                      /\ games[id].status = "Created"
                      /\ s = games[id].player2)
    /\ [][ \A id \in DOMAIN games :
              /\ (games[id].status # "Active" /\ games'[id].status = "Active")
                    => /\ games[id].status = "Created"
                       /\ games' = [games EXCEPT ![id].status = "Active"]
                       /\ balances'[games[id].player2]
                             = balances[games[id].player2] - games[id].wagerAmount
                       /\ balances'[GM] = balances[GM] + games[id].wagerAmount
              /\ games[id].status # "Created"
                    => games'[id].status # "Created" ]_vars

\* one game was joined by its player2 and another is still Created, whose
\* player1 or a stranger would be turned away
C21_Witness ==
    \E a, b \in DOMAIN games :
        /\ games[a].status = "Active"
        /\ paidIn[a] = games[a].player1Wager + games[a].wagerAmount
        /\ games[b].status = "Created"
        /\ JoinGameErr(games[b].player2, b) = "OK"
        /\ JoinGameErr(games[b].player1, b) = "NotPlayer2"
        /\ JoinGameErr("charlie", a) = "InvalidGameStatus"
        /\ JoinGameErr("charlie", nextGameId) = "InvalidGameId"

\* C22: cancelGame can succeed only for a Created game and only for
\* player1. In every state, whatever the time, a call for a game that is
\* not Created is rejected with InvalidGameStatus and a call for a Created
\* game by anyone but player1 with NotPlayer; a call that would succeed is
\* player1's, for a Created game whose deadline has come; and a step that
\* makes a game Cancelled takes it from Created and pays player1.
C22_CancelValidation ==
    /\ [](\A s \in Accounts, id \in DOMAIN games :
             /\ games[id].status # "Created"
                   => CancelGameErr(s, id) = "InvalidGameStatus"
             /\ (games[id].status = "Created" /\ s # games[id].player1)
                   => CancelGameErr(s, id) = "NotPlayer"
             /\ CancelGameErr(s, id) = "OK"
                   => /\ games[id].status = "Created"
                      /\ s = games[id].player1
                      /\ now >= games[id].createdAt + cancelTimeout)
    /\ [][ \A id \in DOMAIN games :
              (games[id].status # "Cancelled" /\ games'[id].status = "Cancelled")
                 => /\ games[id].status = "Created"
                    /\ games' = [games EXCEPT ![id].status = "Cancelled"]
                    /\ balances' = Moved(GM, games[id].player1,
                                         games[id].player1Wager) ]_vars

\* the deadline of both games has passed: the one player2 joined cannot be
\* cancelled by either player, the other only by its player1
C22_Witness ==
    \E a, b \in DOMAIN games :
        /\ games[a].status = "Active"
        /\ now >= games[a].createdAt + cancelTimeout
        /\ CancelGameErr(games[a].player1, a) = "InvalidGameStatus"
        /\ CancelGameErr(games[a].player2, a) = "InvalidGameStatus"
        /\ games[b].status = "Created"
        /\ now >= games[b].createdAt + cancelTimeout
        /\ CancelGameErr(games[b].player2, b) = "NotPlayer"
        /\ CancelGameErr("charlie", b) = "NotPlayer"
        /\ CancelGameErr(games[b].player1, b) = "OK"

\* the three ways a TicTacToeGame game can have ended
WonBy(g) ==
    g.status = "Completed" /\ g.winner \in {g.player1, g.player2}
    /\ g.winner # Zero /\ ~g.isDraw
Drawn(g) == g.status = "Completed" /\ g.isDraw /\ g.winner = Zero
Called(g) == g.status = "Cancelled" /\ g.winner = Zero /\ ~g.isDraw

\* C23: every TicTacToeGame game that is Completed or Cancelled is in
\* exactly one of three conditions: Completed with one of its two players
\* as winner and isDraw false, Completed with isDraw true and no winner,
\* Cancelled with no winner and isDraw false. In GameManager a game has a
\* winner exactly when it is Completed.
C23_TerminalOutcome ==
    /\ \A id \in DOMAIN tttGames :
          LET g == tttGames[id]
          IN  g.status \in {"Completed", "Cancelled"}
                 => Cardinality({c \in {"won", "drawn", "cancelled"} :
                                    \/ c = "won" /\ WonBy(g)
                                    \/ c = "drawn" /\ Drawn(g)
                                    \/ c = "cancelled" /\ Called(g)}) = 1
    /\ \A id \in DOMAIN games :
          games[id].winner # Zero <=> games[id].status = "Completed"

\* a game of TicTacToeGame has ended with the board full and no line
C23_Witness ==
    \E id \in DOMAIN tttGames :
        /\ Drawn(tttGames[id])
        /\ IsBoardFull(tttGames[id].board)
        /\ ~CheckWin(tttGames[id].board, 1)
        /\ ~CheckWin(tttGames[id].board, 2)

\* what the accounts other than the named ones hold is unchanged
OthersKeep(named) ==
    \A a \in DOMAIN balances \ named : balances'[a] = balances[a]

\* C24: in TicTacToeGame a move that ends the game either completes a line
\* of the mover, and then the mover is the winner, is paid 2 * wagerAmount
\* and the game is not a draw even when the board is full, or fills the
\* board without a line, and then the game is a draw with no winner and
\* each player is paid back exactly wagerAmount.
C24_DrawOrWin ==
    [][ \A id \in DOMAIN tttGames :
           LET g == tttGames[id]
               h == tttGames'[id]
               mover == g.currentTurn
               mark == CellState(g, mover)
           IN  (g.status = "Active" /\ h.status = "Completed"
                /\ h.board # g.board)
                  => IF CheckWin(h.board, mark)
                     THEN /\ h.winner = mover
                          /\ ~h.isDraw
                          /\ balances'[mover] = balances[mover] + 2 * g.wagerAmount
                          /\ balances'[TTT] = balances[TTT] - 2 * g.wagerAmount
                          /\ OthersKeep({mover, TTT})
                     ELSE /\ IsBoardFull(h.board)
                          /\ h.isDraw
                          /\ h.winner = Zero
                          /\ balances'[g.player1] = balances[g.player1] + g.wagerAmount
                          /\ balances'[g.player2] = balances[g.player2] + g.wagerAmount
                          /\ balances'[TTT] = balances[TTT] - 2 * g.wagerAmount
                          /\ OthersKeep({g.player1, g.player2, TTT}) ]_vars

\* a game was won by the move that filled the last empty cell
C24_Witness ==
    \E id \in DOMAIN tttGames :
        LET g == tttGames[id]
        IN  /\ g.status = "Completed"
            /\ IsBoardFull(g.board)
            /\ CheckWin(g.board, 1)
            /\ g.winner = g.player1
            /\ ~g.isDraw
            /\ balances[g.player1] = InitialBalance + g.wagerAmount
            /\ balances[g.player2] = InitialBalance - g.wagerAmount

\* C25: claimTimeoutWin succeeds exactly when the game is Active, the
\* caller is the player who is not on turn and now >= lastMoveAt +
\* MOVE_TIMEOUT, the deadline included. The step of a successful claim
\* marks the game Completed with the caller as winner, pays the caller
\* 2 * wagerAmount and changes nothing else; a rejected claim changes
\* nothing.
C25_TimeoutClaim ==
    /\ [](\A s \in Accounts, id \in DOMAIN tttGames :
             LET g == tttGames[id]
             IN  ClaimTimeoutWinErr(s, id) = "OK"
                    <=> /\ g.status = "Active"
                        /\ s \in {g.player1, g.player2}
                        /\ s # g.currentTurn
                        /\ now >= g.lastMoveAt + 120)
    /\ [][ /\ \A s \in Accounts, id \in 0..MaxBoards :
                (ClaimTimeoutWinErr(s, id) # "OK" /\ ClaimTimeoutWin(s, id))
                   => UNCHANGED vars
           /\ \A id \in DOMAIN tttGames :
                LET g == tttGames[id]
                    claimant == IF g.currentTurn = g.player1 THEN g.player2
                                ELSE g.player1
                IN  (g.status = "Active" /\ tttGames'[id].status = "Completed"
                     /\ tttGames'[id].board = g.board)
                       => /\ now >= g.lastMoveAt + 120
                          /\ tttGames' = [tttGames EXCEPT
                                            ![id].status = "Completed",
                                            ![id].winner = claimant]
                          /\ balances' = Moved(TTT, claimant, 2 * g.wagerAmount)
         ]_vars

\* a game was forfeited at the very second of the deadline, and the
\* winner holds the whole pot
C25_Witness ==
    \E id \in DOMAIN tttGames :
        LET g == tttGames[id]
        IN  /\ g.status = "Completed"
            /\ g.winner # Zero
            /\ g.winner # g.currentTurn
            /\ ~CheckWin(g.board, 1) /\ ~CheckWin(g.board, 2)
            /\ now = g.lastMoveAt + 120
            /\ balances[g.winner] = InitialBalance + g.wagerAmount

\* C26: a successful buyTokens(duelAmount) moves exactly
\* floor(duelAmount * pricePerToken / 10^18) USDC from the buyer to the
\* store and exactly duelAmount DUEL from the store to the buyer,
\* calculateCost(duelAmount) is that same cost, and nothing else changes.
C26_PurchaseAmounts ==
    [][ \A s \in Accounts, d \in BuyAmounts :
           (BuyTokensErr(s, d) = "OK" /\ BuyTokens(s, d))
              => \E c \in 0..InitialUsdc :
                    /\ c * DuelUnit <= d * pricePerToken
                    /\ d * pricePerToken < (c + 1) * DuelUnit
                    /\ CalculateCost(d) = c
                    /\ usdcBalances'[s] = usdcBalances[s] - c
                    /\ usdcBalances'[STORE] = usdcBalances[STORE] + c
                    /\ \A a \in DOMAIN usdcBalances \ {s, STORE} :
                          usdcBalances'[a] = usdcBalances[a]
                    /\ balances'[s] = balances[s] + d
                    /\ balances'[STORE] = balances[STORE] - d
                    /\ OthersKeep({s, STORE})
                    /\ UNCHANGED <<gmVars, now, tttVars, target, offVars,
                                   pricePerToken, isOpen>> ]_vars

\* the buyer holds tokens bought at a price that does not divide evenly:
\* 1500 thousandths at 1 cost 1, not 1.5
C26_Witness ==
    /\ pricePerToken = 1
    /\ balances["alice"] = InitialBalance + 1500
    /\ usdcBalances["alice"] = InitialUsdc - 1
    /\ usdcBalances[STORE] = 1
    /\ balances[STORE] = StoreInventory - 1500

\* the amount is zero or its cost floors to zero
Dust(d) == d = 0 \/ d * pricePerToken < DuelUnit

\* C27, as stated: buyTokens is rejected with InvalidAmount whenever
\* duelAmount is 0 or the cost floors to 0.
C27_DustInvalidAmount ==
    \A s \in Accounts, d \in BuyAmounts :
        Dust(d) => BuyTokensErr(s, d) = "InvalidAmount"

\* C27, amended: no purchase delivers DUEL for zero USDC. A buyTokens whose
\* duelAmount is 0 or whose cost floors to 0 is always rejected, with
\* InvalidAmount while the store is open and with StoreClosed while it is
\* closed; every successful purchase has duelAmount > 0 and brings the
\* store at least 1 USDC, and no DUEL leaves the store for an account
\* other than the owner without USDC coming in.
C27_NoFreeTokens ==
    /\ [](\A s \in Accounts, d \in BuyAmounts :
             Dust(d) => BuyTokensErr(s, d) =
                           IF isOpen THEN "InvalidAmount" ELSE "StoreClosed")
    /\ [][ /\ \A s \in Accounts, d \in BuyAmounts :
                (BuyTokensErr(s, d) = "OK" /\ BuyTokens(s, d))
                   => /\ d > 0
                      /\ usdcBalances'[STORE] >= usdcBalances[STORE] + 1
           /\ (balances'[STORE] < balances[STORE]
               /\ balances'[OwnerAddr] = balances[OwnerAddr])
                 => usdcBalances'[STORE] >= usdcBalances[STORE] + 1 ]_vars

\* at the price of 1 a purchase was made for the least cost, 1, while the
\* smaller amount on offer would cost nothing and is refused
C27_Witness ==
    /\ isOpen
    /\ pricePerToken = 1
    /\ usdcBalances[STORE] = 1
    /\ balances["alice"] = InitialBalance + 1500
    /\ Dust(500)
    /\ BuyTokensErr("alice", 500) = "InvalidAmount"
    /\ BuyTokensErr("alice", 0) = "InvalidAmount"

\* C28, as stated: buyTokens is rejected with InsufficientInventory
\* whenever the store's DUEL balance is below duelAmount.
C28_ShortInventoryError ==
    \A s \in Accounts, d \in BuyAmounts :
        balances[STORE] < d => BuyTokensErr(s, d) = "InsufficientInventory"

\* C28, amended: a buyTokens that passes the open and amount checks is
\* rejected with InsufficientInventory when the store holds less DUEL than
\* duelAmount and, when the store holds enough, with the token's own
\* failure when the buyer lacks USDC balance or allowance. A rejected
\* purchase moves no USDC and no DUEL, the store's DUEL balance is never
\* negative, and no account loses USDC in a step without gaining DUEL in
\* the same step.
C28_NothingMovesOnFailure ==
    /\ [](/\ balances[STORE] >= 0
          /\ \A s \in Accounts, d \in BuyAmounts :
                (isOpen /\ ~Dust(d))
                   => /\ balances[STORE] < d
                         => BuyTokensErr(s, d) = "InsufficientInventory"
                      /\ (balances[STORE] >= d
                          /\ (s \notin Approved
                              \/ (usdcBalances[s] + 1) * DuelUnit
                                    <= d * pricePerToken))
                         => BuyTokensErr(s, d) \in
                               {"ERC20InsufficientAllowance",
                                "ERC20InsufficientBalance"})
    /\ [][ /\ \A s \in Accounts, d \in BuyAmounts :
                (BuyTokensErr(s, d) # "OK" /\ BuyTokens(s, d))
                   => UNCHANGED vars
           /\ \A a \in Accounts :
                usdcBalances'[a] < usdcBalances[a]
                   => balances'[a] > balances[a] ]_vars

\* the store is open and holds tokens, the buyer has spent part of the
\* USDC: the larger amount exceeds the inventory, the smaller one the
\* buyer's means, and the account without approval is turned away
C28_Witness ==
    /\ isOpen
    /\ pricePerToken = 20000
    /\ balances[STORE] >= 1500
    /\ balances["alice"] > InitialBalance
    /\ BuyTokensErr("alice", 4000) = "InsufficientInventory"
    /\ BuyTokensErr("alice", 1500) = "ERC20InsufficientBalance"
    /\ BuyTokensErr("bob", 500) = "ERC20InsufficientAllowance"
    /\ BuyTokensErr("charlie", 500) = "ERC20InsufficientBalance"

\* C29: the price and the open flag apply to a purchase by their values
\* when it is made. pricePerToken is never 0; while isOpen is false every
\* buyTokens is rejected with StoreClosed, whatever the amount, and while
\* it is true none is; the price changes only by the owner's setPrice, to
\* the value given, in a step that moves no USDC and no DUEL; and every
\* purchase is charged at the price of the state it is made in.
C29_PriceAndFlagApplyNow ==
    /\ [](/\ pricePerToken # 0
          /\ \A s \in Accounts, d \in BuyAmounts :
                (BuyTokensErr(s, d) = "StoreClosed") <=> ~isOpen)
    /\ [][ /\ pricePerToken' # pricePerToken
                => /\ \E p \in StorePrices \ {0} :
                         SetPrice(OwnerAddr, p) /\ pricePerToken' = p
                   /\ UNCHANGED <<balances, usdcBalances>>
           /\ isOpen' # isOpen
                => /\ \E b \in BOOLEAN :
                         SetStoreStatus(OwnerAddr, b) /\ isOpen' = b
                   /\ UNCHANGED <<balances, usdcBalances>>
           /\ \A s \in Accounts, d \in BuyAmounts :
                (BuyTokensErr(s, d) = "OK" /\ BuyTokens(s, d))
                   => /\ isOpen
                      /\ usdcBalances'[STORE] - usdcBalances[STORE]
                            = (d * pricePerToken) \div DuelUnit
                      /\ UNCHANGED <<pricePerToken, isOpen>> ]_vars

\* the store, now closed, holds the proceeds of one purchase made at the
\* price of 1 and one made at the price of 20000: 1 + 10000
C29_Witness ==
    /\ ~isOpen
    /\ pricePerToken = 20000
    /\ balances["alice"] = InitialBalance + 1500 + 500
    /\ usdcBalances[STORE] = 1 + 10000
    /\ BuyTokensErr("alice", 0) = "StoreClosed"
    /\ BuyTokensErr("alice", 500) = "StoreClosed"

\* C30, as stated for joinGame: whether a joinGame on g succeeds does not
\* depend on the state of any other game, so a step that changes another
\* game leaves the outcome of every joinGame on g as it was.
C30_JoinUnaffected ==
    [][ \A g \in DOMAIN games :
           (games' # games /\ games'[g] = games[g])
              => \A s \in Accounts :
                    JoinGameErr(s, g)' = JoinGameErr(s, g) ]_vars

\* C30, amended: a joinGame, completeGame or cancelGame with argument g,
\* and a createGame, leave the record of every other game unchanged; and
\* a step that changes some game leaves, for every game g it does not
\* change, the outcome of every cancelGame and completeGame on g as it
\* was, and the outcome of every joinGame on g by a caller whose token
\* balance the step does not change.
C30_GamesIndependent ==
    [][ /\ \A s \in Accounts, g \in 0..(MaxGames - 1) :
             (\/ JoinGame(s, g)
              \/ CancelGame(s, g)
              \/ \E w \in Accounts, k \in Keys :
                    CompleteGame(s, g, w, Sign(k, g, w)))
                => \A h \in DOMAIN games \ {g} : games'[h] = games[h]
        /\ nextGameId' # nextGameId
              => \A h \in DOMAIN games : games'[h] = games[h]
        /\ \A g \in DOMAIN games :
             (games' # games /\ games'[g] = games[g])
                => /\ \A s \in Accounts :
                         CancelGameErr(s, g)' = CancelGameErr(s, g)
                   /\ \A w \in Accounts, k \in Keys :
                         CompleteGameErr(g, w, Sign(k, g, w))'
                            = CompleteGameErr(g, w, Sign(k, g, w))
                   /\ \A s \in Accounts :
                         balances'[s] = balances[s]
                            => JoinGameErr(s, g)' = JoinGameErr(s, g) ]_vars

\* two games wait for their second player; the player1 of the first is
\* the player2 of the second and, the stake of the first being in escrow,
\* cannot pay for the second, while a cancelGame on the first is open
C30_Witness ==
    \E a, b \in DOMAIN games :
        /\ games[a].status = "Created"
        /\ games[b].status = "Created"
        /\ games[b].player2 = games[a].player1
        /\ JoinGameErr(games[b].player2, b) = "ERC20InsufficientBalance"
        /\ CancelGameErr(games[a].player1, a) = "OK"
        /\ CancelGameErr(games[b].player1, b) = "OK"

\* C31: a completeGame rejected with InvalidSignature leaves the digest
\* unmarked, although the mark is written before the signer is checked.
\* The step of such a call changes nothing; so in every state, for every
\* Active game and each of its players w, the digest of (g, w) is unmarked
\* and a call with the backend's attestation for (g, w) succeeds; and the
\* step of a successful call marks the digest and pays the pot to w.
C31_WrongSignatureLeavesNoMark ==
    /\ [](\A g \in DOMAIN games :
             games[g].status = "Active"
                => \A w \in {games[g].player1, games[g].player2} :
                      /\ Digest(g, w) \notin usedSignatures
                      /\ CompleteGameErr(g, w, Sign(backendSigner, g, w)) = "OK"
                      /\ CompleteGameErr(g, w, Sign(OtherKey, g, w))
                            = "InvalidSignature")
    /\ [][ \A s \in Accounts, g \in 0..(MaxGames - 1), w \in Accounts,
              k \in Keys :
              LET sig == Sign(k, g, w)
              IN  /\ (CompleteGameErr(g, w, sig) = "InvalidSignature"
                      /\ CompleteGame(s, g, w, sig))
                        => UNCHANGED vars
                  /\ (CompleteGameErr(g, w, sig) = "OK"
                      /\ CompleteGame(s, g, w, sig))
                        => /\ usedSignatures'
                                 = usedSignatures \cup {Digest(g, w)}
                           /\ balances' = Moved(GM, w, games[g].player1Wager
                                                       + games[g].wagerAmount)
         ]_vars

\* one game was settled with the backend's attestation and its pot paid;
\* the other is Active, nothing is marked for it, and a forged attestation
\* for it is turned away
C31_Witness ==
    \E a, b \in DOMAIN games :
        /\ games[a].status = "Completed"
        /\ usedSignatures = {Digest(a, games[a].winner)}
        /\ paidOut[a] = games[a].player1Wager + games[a].wagerAmount
        /\ games[b].status = "Active"
        /\ CompleteGameErr(b, games[b].player2,
                           Sign(OtherKey, b, games[b].player2))
              = "InvalidSignature"
        /\ CompleteGameErr(b, games[b].player2,
                           Sign(BackendKey, b, games[b].player2)) = "OK"

\* C32: in every state the digest of (g, w) is marked in usedSignatures
\* exactly when game g is Completed with winner w, so at most one digest
\* per game is marked; and no step removes a mark.
C32_MarksMatchSettlements ==
    /\ [](/\ \A g \in 0..MaxGames, w \in Accounts \cup {Zero, OwnerAddr} :
                Digest(g, w) \in usedSignatures
                   <=> /\ g \in DOMAIN games
                       /\ games[g].status = "Completed"
                       /\ games[g].winner = w
          /\ \A d, e \in usedSignatures : d[1] = e[1] => d = e)
    /\ [][usedSignatures \subseteq usedSignatures']_vars

\* both games are settled, for different winners, and the signer has been
\* rotated: two marks, one per game
C32_Witness ==
    /\ Cardinality(usedSignatures) = 2
    /\ \E a, b \in DOMAIN games :
          /\ a # b
          /\ games[a].status = "Completed"
          /\ games[b].status = "Completed"
          /\ games[a].winner # games[b].winner
    /\ backendSigner = OtherKey

\* C33: for a Created game whose cancel timeout has elapsed, cancelGame by
\* player1 and joinGame by player2 (who holds the wager) are both open,
\* and they exclude each other: the step of either makes the other fail
\* with InvalidGameStatus. No game that was refunded is or becomes Active,
\* an Active game has had nothing paid out, and the passing of time alone
\* changes no game.
C33_JoinCancelRace ==
    /\ [](\A g \in DOMAIN games :
             /\ (games[g].status = "Created"
                 /\ now >= games[g].createdAt + cancelTimeout)
                   => /\ CancelGameErr(games[g].player1, g) = "OK"
                      /\ balances[games[g].player2] >= games[g].wagerAmount
                            => JoinGameErr(games[g].player2, g) = "OK"
             /\ games[g].status = "Active" => paidOut[g] = 0)
    /\ [][ /\ \A g \in DOMAIN games :
                /\ IsJoin(g)
                      => /\ \A s \in Accounts :
                               CancelGameErr(s, g)' = "InvalidGameStatus"
                         /\ paidOut'[g] = 0
                /\ IsCancel(g)
                      => /\ \A s \in Accounts :
                               JoinGameErr(s, g)' = "InvalidGameStatus"
                         /\ CancelGame(games[g].player1, g)
                /\ games[g].status = "Cancelled"
                      => games'[g].status = "Cancelled"
           /\ now' # now => games' = games ]_vars

\* the timeout of two Created games has elapsed; for each both calls are
\* open; then one was joined and the other cancelled
C33_Witness ==
    \E a, b \in DOMAIN games :
        /\ games[a].status = "Active"
        /\ games[b].status = "Cancelled"
        /\ now >= games[a].createdAt + cancelTimeout
        /\ paidIn[a] = games[a].player1Wager + games[a].wagerAmount
        /\ paidOut[a] = 0
        /\ paidOut[b] = games[b].player1Wager
        /\ CancelGameErr(games[a].player1, a) = "InvalidGameStatus"
        /\ JoinGameErr(games[b].player2, b) = "InvalidGameStatus"

\* C34: the cancel deadline is createdAt + the cancelTimeout of the state
\* the call is made in. In every state player1's cancelGame on a Created
\* game succeeds exactly when now >= createdAt + cancelTimeout; so a step
\* that changes cancelTimeout makes a Created game cancellable at once
\* when the new deadline has passed and not cancellable when it has not,
\* whatever held before.
C34_DeadlineAtCallTime ==
    /\ [](\A g \in DOMAIN games :
             games[g].status = "Created"
                => CancelGameErr(games[g].player1, g) =
                      IF now >= games[g].createdAt + cancelTimeout
                      THEN "OK" ELSE "TimeoutNotReached")
    /\ [][ cancelTimeout' # cancelTimeout
              => /\ games' = games /\ now' = now
                 /\ \A g \in DOMAIN games :
                       games[g].status = "Created"
                          => (CancelGameErr(games[g].player1, g)' = "OK")
                                <=> now >= games[g].createdAt + cancelTimeout'
         ]_vars

\* a game created under the timeout of a day is cancellable one second
\* later, the timeout having been shortened to a second
C34_Witness ==
    \E g \in DOMAIN games :
        /\ games[g].status = "Created"
        /\ games[g].createdAt = 0
        /\ now = 1
        /\ cancelTimeout = 1
        /\ now < games[g].createdAt + DefaultCancelTimeout
        /\ CancelGameErr(games[g].player1, g) = "OK"
        /\ SetCancelTimeoutErr(OwnerAddr, 86400) = "OK"

\* what a TicTacToeGame game holds in escrow
TttEscrowed(game) ==
    IF game.status = "Created" THEN game.wagerAmount
    ELSE IF game.status = "Active" THEN 2 * game.wagerAmount
    ELSE 0

RECURSIVE SumTttEscrowed(_)
SumTttEscrowed(ids) ==
    IF ids = {} THEN 0
    ELSE LET id == CHOOSE x \in ids : TRUE
         IN  TttEscrowed(tttGames[id]) + SumTttEscrowed(ids \ {id})

CountMark(board, mark) == Cardinality({c \in Cells : board[c] = mark})

\* C36: in TicTacToeGame only currentTurn can move and turns alternate
\* from player1. In every state currentTurn of a game is player1 or
\* player2; in an Active game there are as many X as O when player1 is on
\* turn and one X more when player2 is, at most 8 cells are taken, and a
\* move by anyone but currentTurn is rejected; no step changes an occupied
\* cell, and a step that changes the board fills one empty cell with the
\* mark of the player who was on turn.
C36_TurnsAlternate ==
    /\ [](\A id \in DOMAIN tttGames :
             LET g == tttGames[id]
                 x == CountMark(g.board, 1)
                 o == CountMark(g.board, 2)
             IN  /\ g.currentTurn \in {g.player1, g.player2}
                 /\ x + o <= 9
                 /\ g.status = "Active"
                       => /\ g.currentTurn = g.player1 => x = o
                          /\ g.currentTurn = g.player2 => x = o + 1
                          /\ x + o <= 8
                          /\ \A s \in (Accounts \cup {OwnerAddr}) \ {g.currentTurn},
                                p \in Cells :
                                MakeMoveErr(s, id, p) = "NotYourTurn")
    /\ [][ \A id \in DOMAIN tttGames :
              LET g == tttGames[id]
                  h == tttGames'[id]
              IN  /\ \A c \in Cells : g.board[c] # 0 => h.board[c] = g.board[c]
                  /\ h.board # g.board
                        => \E c \in Cells :
                              /\ g.board[c] = 0
                              /\ h.board = [g.board EXCEPT ![c] =
                                               CellState(g, g.currentTurn)]
                              /\ g.status = "Active" ]_vars

\* five X and four O: the ninth move has been made and the game is over
C36_Witness ==
    \E id \in DOMAIN tttGames :
        /\ CountMark(tttGames[id].board, 1) = 5
        /\ CountMark(tttGames[id].board, 2) = 4
        /\ tttGames[id].status = "Completed"
        /\ tttGames[id].currentTurn = tttGames[id].player1

\* the player of the game who is not on turn
Waiting(g) == IF g.currentTurn = g.player1 THEN g.player2 ELSE g.player1

\* C37: makeMove does not look at the move clock. In every state of an
\* Active game with now >= lastMoveAt + MOVE_TIMEOUT both a move by the
\* player on turn into any empty cell and a claimTimeoutWin by the waiting
\* player succeed; the step of a move sets lastMoveAt to now and leaves no
\* claimTimeoutWin that succeeds, the step of a claim leaves every move
\* rejected with InvalidGameStatus; a game that has ended never changes
\* again, and tokens leave the contract only in the step that ends one
\* game, in the amount that game held.
C37_MoveClaimRace ==
    /\ [](\A id \in DOMAIN tttGames :
             LET g == tttGames[id]
             IN  (g.status = "Active" /\ now >= g.lastMoveAt + 120)
                    => /\ ClaimTimeoutWinErr(Waiting(g), id) = "OK"
                       /\ \A p \in Cells :
                             g.board[p] = 0
                                => MakeMoveErr(g.currentTurn, id, p) = "OK")
    /\ [][ /\ \A id \in DOMAIN tttGames :
                LET g == tttGames[id]
                    h == tttGames'[id]
                IN  /\ h.board # g.board
                          => /\ h.lastMoveAt = now
                             /\ \A s \in Accounts :
                                   ClaimTimeoutWinErr(s, id)' # "OK"
                    /\ (g.status = "Active" /\ h.status = "Completed"
                        /\ h.board = g.board)
                          => \A s \in Accounts, p \in Cells :
                                MakeMoveErr(s, id, p)' = "InvalidGameStatus"
                    /\ g.status \in {"Completed", "Cancelled"} => h = g
           /\ balances'[TTT] < balances[TTT]
                 => \E id \in DOMAIN tttGames :
                       /\ tttGames[id].status \in {"Created", "Active"}
                       /\ tttGames'[id].status \in {"Completed", "Cancelled"}
                       /\ balances[TTT] - balances'[TTT]
                             = TttEscrowed(tttGames[id])
                       /\ \A o \in DOMAIN tttGames \ {id} :
                             tttGames'[o] = tttGames[o] ]_vars

\* a game in which moves have been made stands at the very deadline: the
\* player on turn can still move and the waiting player can claim
C37_Witness ==
    \E id \in DOMAIN tttGames :
        LET g == tttGames[id]
        IN  /\ g.status = "Active"
            /\ CountMark(g.board, 1) + CountMark(g.board, 2) >= 2
            /\ now = g.lastMoveAt + 120
            /\ balances[TTT] = 2 * g.wagerAmount
            /\ ClaimTimeoutWinErr(Waiting(g), id) = "OK"
            /\ MakeMoveErr(g.currentTurn, id, FirstEmpty(g.board)) = "OK"

\* C38: the game-state service takes a move only from the address that
\* equals currentTurn once both are put in lower case, and only while the
\* game has neither winner nor draw; a move request it rejects, whatever
\* the reason, changes nothing; winner and isDraw are never both set; and a
\* recorded winner is the player of the last move taken.
C38_MoveRequests ==
    /\ [](\A id \in DOMAIN gameStates :
             /\ ~(gameStates[id].winner # Null /\ gameStates[id].isDraw)
             /\ gameStates[id].winner # Null
                   => gameStates[id].winner = gameStates[id].lastPlayer)
    /\ [][ /\ \A id \in DOMAIN gameStates :
                gameStates'[id].moves = gameStates[id].moves + 1
                   => /\ ToLowerCase(gameStates'[id].lastPlayer)
                            = ToLowerCase(gameStates[id].currentTurn)
                      /\ gameStates[id].winner = Null
                      /\ ~gameStates[id].isDraw
           /\ \/ UNCHANGED vars
              \/ \A id \in ServiceIds, s \in ServiceNames, p \in 0..9 :
                    ~(PostMoveErr(id, s, p) # "OK" /\ PostMove(id, s, p, s))
         ]_vars

\* a game was won by a move sent as "alice" while the turn was recorded as
\* "Alice"; the winner is the sender as spelled in the request
C38_Witness ==
    /\ 0 \in DOMAIN gameStates
    /\ gameStates[0].currentTurn = "Alice"
    /\ gameStates[0].winner = "alice"
    /\ gameStates[0].lastPlayer = "alice"
    /\ ~gameStates[0].isDraw
    /\ PostMoveErr(0, "alice", 8) = "Game is already over"
    /\ PostMoveErr(0, "bob", 8) = "Not your turn"
    /\ PostMoveErr(1, "alice", 0) = "Game not found"

\* C39: the signing endpoint adds a signature for (gameId, winner) only in
\* a step from a state in which the service holds a state for gameId that
\* is no draw and records a winner equal, in lower case, to the winner
\* asked for; a request it answers with an error signs nothing and
\* changes nothing.
C39_SignsOnlyRecordedWinner ==
    [][ /\ \A sig \in issued' \ issued :
              /\ sig.key = BackendKey
              /\ sig.gameId \in DOMAIN gameStates
              /\ ~gameStates[sig.gameId].isDraw
              /\ gameStates[sig.gameId].winner # Null
              /\ ToLowerCase(gameStates[sig.gameId].winner)
                    = ToLowerCase(sig.winner)
        /\ \A id \in ServiceIds, w \in ServiceNames \cup {""} :
              (PostCompleteGameErr(id, w) # "OK" /\ PostCompleteGame(id, w))
                 => UNCHANGED vars ]_vars

\* the only signature issued names alice for game 0, whose recorded winner
\* is spelled "Alice"; none was issued for bob, for a draw or for game 1
C39_Witness ==
    /\ issued = {Sign(BackendKey, 0, "alice")}
    /\ 0 \in DOMAIN gameStates
    /\ gameStates[0].winner = "Alice"
    /\ PostCompleteGameErr(0, "alice") = "OK"
    /\ PostCompleteGameErr(0, "bob")
          = "Invalid winner - does not match game result"
    /\ PostCompleteGameErr(1, "alice") = "Game not found"

\* the state an "init" request for a game type and a starting player
\* is said to store
Fresh(gt, p1) ==
    [gameType |-> gt,
     board |-> IF gt = "connect4" THEN [r \in 0..5 |-> [c \in 0..6 |-> 0]]
               ELSE [c \in 0..8 |-> 0],
     currentTurn |-> p1, moves |-> 0, lastPlayer |-> Null,
     winner |-> Null, isDraw |-> FALSE]

\* C40: in every state, whatever is stored for a game, an init request for
\* it can be taken and stores an empty board, no moves, the supplied
\* player1 as currentTurn, no winner and no draw; and a move request the
\* service takes, whoever it names as opponent, leaves the game over or
\* currentTurn equal to that opponent.
C40_InitOverwrites ==
    /\ [](\A id \in DOMAIN gameStates, gt \in ServiceTypes,
             p1 \in ServiceNames :
             ENABLED (PostInit(id, gt, p1)
                        /\ gameStates'[id] = Fresh(gt, p1)))
    /\ [][gameStates' # gameStates
             => \A id \in DOMAIN gameStates, s \in ServiceNames,
                   o \in ServiceNames, p \in 0..9 :
                   (/\ PostMoveErr(id, s, p) = "OK"
                    /\ PostMove(id, s, p, o)
                    /\ gameStates'[id].winner = Null
                    /\ ~gameStates'[id].isDraw)
                      => /\ gameStates'[id].moves = gameStates[id].moves + 1
                         /\ gameStates'[id].currentTurn = o]_vars

\* a signature was issued for game 0, so it was once finished, and its
\* state now holds one move, sent by alice naming herself as opponent
C40_Witness ==
    /\ issued # {}
    /\ 0 \in DOMAIN gameStates
    /\ gameStates[0].moves = 1
    /\ gameStates[0].lastPlayer = "alice"
    /\ gameStates[0].currentTurn = "alice"
    /\ gameStates[0].winner = Null

====
